---- MODULE Spec2Model ----
(***************************************************************************)
(* Guided Component Architect: the generator / validator / corrector /     *)
(* finalizer pipeline of agent/graph.py, driven by the compiled LangGraph  *)
(* state machine, and invoked turn by turn by a caller (main.py run()).    *)
(*                                                                         *)
(* Text is modelled structurally.  A character is a one-character string,  *)
(* a name or a prompt is a sequence of characters.  A payload (TypeScript, *)
(* HTML, SCSS) is a sequence of tokens; a token is a sequence of strings   *)
(* whose head is its kind:                                                 *)
(*    <<"text", s>>            the literal text s                          *)
(*    <<"hex", c1, ..., cn>>   '#' followed by the hex digits c1..cn and a *)
(*                             word boundary                               *)
(*    <<"open", t1, .., tn>>          <t>, t the tag name t1..tn           *)
(*    <<"openattr", t1, .., tn>>      <t attr="..">                        *)
(*    <<"close", t1, .., tn>>         </t>                                 *)
(*    <<"selfclose", t1, .., tn>>     <t/>                                 *)
(*    <<"selfcloseattr", t1, .., tn>> <t attr=".." />                      *)
(* An error message is a sequence of strings (its fixed text followed by   *)
(* the values formatted into it, in order).                                *)
(***************************************************************************)
EXTENDS Integers, Sequences, FiniteSets, TLC

VARIABLES
    request,       \* the ComponentRequest threaded through the running pipeline
    pc,            \* the node the graph runs next; "idle", "END", "raised" outside a run
    lastNode,      \* the node that ran last in this run ("START" before the first)
    genCalls,      \* llm.invoke calls made by generator_node in this run
    genOutcome,    \* how the last of them ended: "none", "returned", "raised"
    criticCalls,   \* llm.invoke calls made by validator_node in this run
    criticCalled,  \* did the last validation pass call the critic
    valPasses,     \* validation passes of this run
    routeEvals,    \* evaluations of should_retry in this run
    steps,         \* node executions of this run
    raised,        \* the exception that ended the run, "none" if none
    files,         \* the persistence sink: path -> content
    cli_request,   \* main.py run(): request, the last completed request
    history,       \* main.py run(): history
    turn,          \* number of pipeline runs started
    design_system, \* the content of design_system.json
    previous_errors, \* generator_node: previous_errors of the last prompt built
    messages,      \* the error block of the last generator prompt
    response,      \* generator_node: response.content, if the generator ran last and its call returned
    critic_out,    \* what the critic call of the node that ran last returned, None if it made none
    layer1,        \* validator_node: errors as layer 1 left it in the last pass
    passErrors,    \* the validation_errors each pass of this run left, in order
    trace,         \* the nodes that completed in this run, in order
    runs,          \* the pipeline runs in progress side by side: run -> [pc, request]
    _STORE,        \* session_store._STORE: session id -> Session
    session,       \* server.py generate(): the id of its session, None when no request is served
    responses      \* the answers /api/generate has given, in order: [session_id, status_code]

vars == <<request, pc, lastNode, genCalls, genOutcome, criticCalls, criticCalled, valPasses,
          routeEvals, steps, raised, files, cli_request, history, turn,
          design_system, previous_errors, messages, response, critic_out, layer1,
          passErrors, trace, runs, _STORE, session, responses>>

\* Number of caller turns (pipeline runs) explored.
MaxTurns == 2

\* Longest run of tags, and of color literals, in the payloads drawn for the
\* rule layer; longest run of prose and fence pieces before the body of a
\* response drawn for the parser; number of parts of a name drawn for the
\* finalizer.
MaxTokens == 3

\* graph.py: MAX_RETRIES = 2
MAX_RETRIES == 2

\* main.py / server.py: {"recursion_limit": 20}
RECURSION_LIMIT == 20

\* Python None for the Optional[AngularComponent] fields.
None == [none |-> TRUE]

\* An Optional value that is not None, where None must be told from a list.
Some(v) == [none |-> FALSE, value |-> v]

\* ---------------------------------------------------------------------------
\* Generic sequence helpers
\* ---------------------------------------------------------------------------

RECURSIVE SelectIdx(_, _, _)
\* the indices i >= from of s, ascending, with s[i] = x
SelectIdx(s, x, from) ==
    IF from > Len(s) THEN <<>>
    ELSE IF s[from] = x THEN <<from>> \o SelectIdx(s, x, from + 1)
    ELSE SelectIdx(s, x, from + 1)

\* str.find(x): first index of x in s, or -1
Find(s, x) ==
    LET ix == SelectIdx(s, x, 1) IN IF ix = <<>> THEN -1 ELSE ix[1]

\* str.rfind(x): last index of x in s, or -1
RFind(s, x) ==
    LET ix == SelectIdx(s, x, 1) IN IF ix = <<>> THEN -1 ELSE ix[Len(ix)]

\* len(re.findall(...)) / str.count(...) over tokens: the number of
\* positions of s that hold an element of the set matching
Count(s, matching) == Cardinality({i \in 1..Len(s) : s[i] \in matching})

\* the element of a one-element set.  Only({F(x) : x \in {e}}) is F(e) with
\* the local variable x holding the value of e, computed once.
Only(S) == CHOOSE x \in S : TRUE

\* x in s
Contains(s, x) == \E i \in 1..Len(s) : s[i] = x

\* Python slice s[a:b] on 1-based indices a..b inclusive (empty when b < a)
Slice(s, a, b) == SubSeq(s, a, b)

\* dict.get(k, default) on a record used as a dict
Get(d, k, default) == IF k \in DOMAIN d THEN d[k] ELSE default

\* ---------------------------------------------------------------------------
\* Characters
\* ---------------------------------------------------------------------------

LowerLetters == <<"a","b","c","d","e","f","g","h","i","j","k","l","m",
                  "n","o","p","q","r","s","t","u","v","w","x","y","z">>
UpperLetters == <<"A","B","C","D","E","F","G","H","I","J","K","L","M",
                  "N","O","P","Q","R","S","T","U","V","W","X","Y","Z">>
Digits == <<"0","1","2","3","4","5","6","7","8","9">>

UpperSet == {UpperLetters[i] : i \in 1..26}
LowerSet == {LowerLetters[i] : i \in 1..26}
DigitSet == {Digits[i] : i \in 1..10}

IsUpper(c) == c \in UpperSet
IsLower(c) == c \in LowerSet
IsAlnum(c) == IsUpper(c) \/ IsLower(c) \/ c \in DigitSet

\* the lower-case letter of each upper-case letter, and the converse
ToLower == [c \in UpperSet |-> LowerLetters[CHOOSE i \in 1..26 : UpperLetters[i] = c]]
ToUpper == [c \in LowerSet |-> UpperLetters[CHOOSE i \in 1..26 : LowerLetters[i] = c]]

\* str.lower() / str.upper() on one character
LowerChar(c) == IF IsUpper(c) THEN ToLower[c] ELSE c
UpperChar(c) == IF IsLower(c) THEN ToUpper[c] ELSE c

\* str.lower() on a character sequence
LowerStr(s) == [i \in 1..Len(s) |-> LowerChar(s[i])]

\* str.capitalize(): first character upper-cased, the rest lower-cased
Capitalize(s) ==
    [i \in 1..Len(s) |-> IF i = 1 THEN UpperChar(s[i]) ELSE LowerChar(s[i])]

ComponentWord == <<"C","o","m","p","o","n","e","n","t">>

\* ---------------------------------------------------------------------------
\* Payload tokens
\* ---------------------------------------------------------------------------

TComponent  == <<"text", "@Component">>
TStandalone == <<"text", "standalone: true">>
TClass      == <<"text", "export class">>
TSelector   == <<"text", ".card">>
TLBrace     == <<"text", "{">>
TRBrace     == <<"text", "}">>
TEscQuote   == <<"text", "\\\"">>
TQuote      == <<"text", "\"">>
TWords      == <<"text", "Sign in">>

Hex(digits)  == <<"hex">> \o digits
OpenTag(t) == <<"open">> \o t
OpenAttr(t) == <<"openattr">> \o t
CloseTag(t) == <<"close">> \o t
SelfClose(t) == <<"selfclose">> \o t
SelfCloseAttr(t) == <<"selfcloseattr">> \o t

\* ---------------------------------------------------------------------------
\* Design palette (agent/design_system.json, read by _load_design_system)
\* ---------------------------------------------------------------------------

DesignSystem ==
    [tokens |-> [primary |-> Hex(<<"6","3","6","6","F","1">>),
                 surface |-> Hex(<<"f","f","f","f","f","f">>),
                 radius  |-> <<"text", "8px">>],
     tailwind_classes |-> [button |-> <<"text", "px-4 py-2">>]]

_load_design_system == design_system

\* ---------------------------------------------------------------------------
\* Validator, layer 1: deterministic rules (validator_node, lines 170-215)
\* ---------------------------------------------------------------------------

\* {v.lower() for v in ds["tokens"].values() if isinstance(v, str) and v.startswith("#")}
AllowedColors(ds) ==
    {LowerStr(Tail(ds.tokens[k])) : k \in {n \in DOMAIN ds.tokens : ds.tokens[n][1] = "hex"}}

\* "#" + "".join(c * 2 for c in hex_val.lower())
ExpandShorthand(hex_val) ==
    [i \in 1..(2 * Len(hex_val)) |-> LowerChar(hex_val[(i + 1) \div 2])]

\* one match of r"#([0-9a-fA-F]{3,8})\b"
IsHexMatch(tok) == tok[1] = "hex" /\ Len(tok) - 1 >= 3 /\ Len(tok) - 1 <= 8

\* mutant: the shorthand is compared as written only
ColorUnauthorizedRawOnly(hex_val, allowed) ==
    LowerStr(hex_val) \notin allowed

\* the body of the loop over re.findall(...): does hex_val yield an error
ColorUnauthorized(hex_val, allowed) ==
    LET full_hex == LowerStr(hex_val)
    IN  IF Len(hex_val) = 3
        THEN full_hex \notin allowed /\ ExpandShorthand(hex_val) \notin allowed
        ELSE full_hex \notin allowed

RECURSIVE ColorErrors(_, _)
\* Layer 1a, in order of occurrence in all_code
ColorErrors(all_code, allowed) ==
    IF all_code = <<>> THEN <<>>
    ELSE LET tok == Head(all_code)
             rest == ColorErrors(Tail(all_code), allowed)
         IN  IF IsHexMatch(tok) /\ ColorUnauthorized(Tail(tok), allowed)
             THEN <<(<<"Unauthorized color">> \o Tail(tok))>> \o rest
             ELSE rest

ErrMissingDecorator == <<"Missing @Component decorator in TypeScript file">>
ErrMissingStandalone == <<"@Component must include 'standalone: true'">>

\* Layer 1b
DecoratorErrors(typescript_code) ==
    IF typescript_code # <<>>
    THEN IF ~Contains(typescript_code, TComponent) THEN <<ErrMissingDecorator>>
         ELSE IF ~Contains(typescript_code, TStandalone) THEN <<ErrMissingStandalone>>
         ELSE <<>>
    ELSE <<>>

\* Layer 1c
BraceErrors(scss_styles) ==
    IF scss_styles # <<>>
    THEN LET opens == Count(scss_styles, {TLBrace})
             closes == Count(scss_styles, {TRBrace})
         IN  IF opens # closes
             THEN <<(<<"SCSS syntax error: mismatched braces",
                       ToString(opens), ToString(closes)>>)>>
             ELSE <<>>
    ELSE <<>>

\* for tag in ["div", "form", "button", "span", "ul", "li", "section"]
CheckedTags == << <<"d","i","v">>, <<"f","o","r","m">>,
                  <<"b","u","t","t","o","n">>, <<"s","p","a","n">>,
                  <<"u","l">>, <<"l","i">>,
                  <<"s","e","c","t","i","o","n">> >>

\* name.startswith(tag)
StartsWith(name, tag) ==
    Len(name) >= Len(tag) /\ SubSeq(name, 1, Len(tag)) = tag

\* rf"<{tag}[\s>]"
MatchesOpen(tok, tag) ==
    tok[1] \in {"open", "openattr", "selfcloseattr"} /\ Tail(tok) = tag
\* rf"</{tag}>"
MatchesClose(tok, tag) == tok[1] = "close" /\ Tail(tok) = tag
\* rf"<{tag}[^>]*/>"
MatchesSelfClosing(tok, tag) ==
    tok[1] \in {"selfclose", "selfcloseattr"} /\ StartsWith(Tail(tok), tag)

TagError(html_template, tag) ==
    LET at == 1..Len(html_template)
        opens == Cardinality({i \in at : MatchesOpen(html_template[i], tag)})
        closes == Cardinality({i \in at : MatchesClose(html_template[i], tag)})
        self_closing ==
            Cardinality({i \in at : MatchesSelfClosing(html_template[i], tag)})
    IN  IF opens # closes + self_closing
        THEN <<(<<"HTML tag mismatch for">> \o tag \o
                 <<ToString(opens), ToString(closes)>>)>>
        ELSE <<>>

RECURSIVE TagErrorsFrom(_, _)
TagErrorsFrom(html_template, i) ==
    IF i > Len(CheckedTags) THEN <<>>
    ELSE TagError(html_template, CheckedTags[i]) \o TagErrorsFrom(html_template, i + 1)

\* Layer 1d
TagErrors(html_template) ==
    IF html_template # <<>> THEN TagErrorsFrom(html_template, 1) ELSE <<>>

\* mutant: layer 1 starts from the list the artifact already carries
RuleErrorsAccumulating(component, ds) ==
    component.validation_errors
    \o ColorErrors(component.typescript_code \o component.html_template
                   \o component.scss_styles, AllowedColors(ds))
    \o DecoratorErrors(component.typescript_code)
    \o BraceErrors(component.scss_styles)
    \o TagErrors(component.html_template)

\* Layer 1 as a whole: the errors list when line 217 is reached
RuleErrors(component, ds) ==
    Only({ ColorErrors(all_code, allowed_colors)
           \o DecoratorErrors(component.typescript_code)
           \o BraceErrors(component.scss_styles)
           \o TagErrors(component.html_template) :
             all_code \in {component.typescript_code \o component.html_template
                           \o component.scss_styles},
             allowed_colors \in {AllowedColors(ds)} })

\* ---------------------------------------------------------------------------
\* Model output text and json.loads
\*
\* The text of a model response is a sequence of pieces: "prose" (free text
\* that is not JSON), "fence" (a code fence of three backticks), "json" (the language tag after a
\* fence), "{" and "}" (the outermost braces of a JSON object), "123" (a
\* JSON scalar), and the name of a member list (what stands between the
\* braces of an object), whose parsed content JsonMembers gives.
\* ---------------------------------------------------------------------------

NameLoginForm == <<"L","o","g","i","n","F","o","r","m">> \o ComponentWord
NameNavBar    == <<"N","a","v","B","a","r">> \o ComponentWord

TsGood         == <<TComponent, TStandalone, TClass>>
TsEscaped      == <<TComponent, TStandalone, TEscQuote, TClass>>
TsNoStandalone == <<TComponent, TClass>>
HtmlGood       == <<OpenAttr(<<"d","i","v">>), TWords, CloseTag(<<"d","i","v">>)>>
HtmlTwoOpen    == <<OpenTag(<<"d","i","v">>), OpenTag(<<"d","i","v">>),
                    CloseTag(<<"d","i","v">>)>>
ScssGood       == <<TSelector, TLBrace, Hex(<<"F","F","F">>), TRBrace>>
ScssBadColor   == <<TSelector, TLBrace, Hex(<<"1","2","3","a","b","c">>), TRBrace>>

CriticFindingA == <<"Primary action button must use the primary token">>
CriticFindingB == <<"Use utility classes for layout">>

MemberNames == {"G_clean", "G_escaped", "G_two_violations", "G_no_html",
                "G_empty_ts", "G_no_name_tags", "V_pass", "V_pass_with_errors",
                "V_fail", "V_fail_no_errors", "V_fail_empty"}

\* the dict json.loads returns for "{" member-list "}"
JsonMembers(k) ==
    CASE k = "G_clean" ->
           [component_name |-> NameLoginForm, typescript_code |-> TsGood,
            html_template |-> HtmlGood, scss_styles |-> ScssGood]
      [] k = "G_escaped" ->
           [component_name |-> NameNavBar, typescript_code |-> TsEscaped,
            html_template |-> HtmlGood]
      [] k = "G_two_violations" ->
           [component_name |-> NameLoginForm, typescript_code |-> TsNoStandalone,
            html_template |-> HtmlGood, scss_styles |-> ScssBadColor]
      [] k = "G_no_html" ->
           [component_name |-> NameNavBar, typescript_code |-> TsGood,
            scss_styles |-> ScssGood]
      [] k = "G_empty_ts" ->
           [component_name |-> NameNavBar, typescript_code |-> <<>>,
            html_template |-> HtmlGood, scss_styles |-> ScssGood]
      [] k = "G_no_name_tags" ->
           [typescript_code |-> TsGood, html_template |-> HtmlTwoOpen,
            scss_styles |-> <<>>]
      [] k = "V_pass" -> [passed |-> TRUE, errors |-> <<>>]
      [] k = "V_pass_with_errors" -> [passed |-> TRUE, errors |-> <<CriticFindingB>>]
      [] k = "V_fail" -> [passed |-> FALSE, errors |-> <<CriticFindingA, CriticFindingB>>]
      [] k = "V_fail_no_errors" -> [passed |-> FALSE]
      [] k = "V_fail_empty" -> [passed |-> FALSE, errors |-> <<>>]

JsonScalars == {"123"}

\* json.loads(text): ok = FALSE stands for json.JSONDecodeError
JsonLoads(text) ==
    IF Len(text) = 3 /\ text[1] = "{" /\ text[3] = "}" /\ text[2] \in MemberNames
    THEN [ok |-> TRUE, isdict |-> TRUE, data |-> JsonMembers(text[2])]
    ELSE IF text = <<"{", "}">>
    THEN [ok |-> TRUE, isdict |-> TRUE, data |-> <<>>]
    ELSE IF Len(text) = 1 /\ text[1] \in JsonScalars
    THEN [ok |-> TRUE, isdict |-> FALSE, data |-> <<>>]
    ELSE [ok |-> FALSE, isdict |-> FALSE, data |-> <<>>]

RECURSIVE StripFences(_)
\* re.sub(r'```[a-z]*', '', text)
StripFences(text) ==
    IF text = <<>> THEN <<>>
    ELSE IF Head(text) = "fence"
    THEN IF Len(text) >= 2 /\ text[2] = "json"
         THEN StripFences(Tail(Tail(text)))
         ELSE StripFences(Tail(text))
    ELSE <<Head(text)>> \o StripFences(Tail(text))

\* data[key].replace(...) of line 80 on a payload: an escaped quote becomes a quote
Unescape(payload) ==
    [i \in 1..Len(payload) |-> IF payload[i] = TEscQuote THEN TQuote ELSE payload[i]]

PayloadKeys == {"typescript_code", "html_template", "scss_styles"}

\* lines 76-80: unescape the three payload keys that are present
PostProcess(data) ==
    [k \in DOMAIN data |-> IF k \in PayloadKeys THEN Unescape(data[k]) ELSE data[k]]

\* mutant: one attempt only, on the sliced text
_robust_json_parse_strict(raw) ==
    LET start == Find(raw, "{")
        end == RFind(raw, "}")
        text == IF start # -1 /\ end # -1 THEN Slice(raw, start, end) ELSE raw
        first == JsonLoads(text)
    IN  IF first.ok /\ first.isdict
        THEN [first EXCEPT !.data = PostProcess(first.data)]
        ELSE first

\* _robust_json_parse(raw): ok = FALSE stands for the raised JSONDecodeError
_robust_json_parse(raw) ==
    LET start == Find(raw, "{")
        end == RFind(raw, "}")
        text == IF start # -1 /\ end # -1 THEN Slice(raw, start, end) ELSE raw
        first == JsonLoads(text)
    IN  Only({ IF parsed.ok /\ parsed.isdict
               THEN [parsed EXCEPT !.data = PostProcess(parsed.data)]
               ELSE parsed :
                 parsed \in {IF first.ok THEN first ELSE JsonLoads(StripFences(text))} })

\* ---------------------------------------------------------------------------
\* Data model (agent/states.py)
\* ---------------------------------------------------------------------------

\* AngularComponent(...) with the defaults of the fields not given
AngularComponent(name, ts, html, scss, errors, attempt) ==
    [component_name |-> name, typescript_code |-> ts, html_template |-> html,
     scss_styles |-> scss, validation_passed |-> FALSE,
     validation_errors |-> errors, retry_count |-> attempt]

\* ComponentRequest(user_prompt=..., conversation_history=..., current_component=None)
ComponentRequest(prompt, conversation) ==
    [user_prompt |-> prompt, conversation_history |-> conversation,
     current_component |-> None, final_component |-> None, status |-> "pending"]

\* ---------------------------------------------------------------------------
\* Node: generator (generator_node)
\* ---------------------------------------------------------------------------

RECURSIVE TakeAlnum(_)
TakeAlnum(s) ==
    IF s # <<>> /\ IsAlnum(Head(s)) THEN <<Head(s)>> \o TakeAlnum(Tail(s)) ELSE <<>>

RECURSIVE FirstAlnumRun(_)
\* re.search(r'([a-zA-Z0-9]+)', s): the match, or <<>> when there is none
FirstAlnumRun(s) ==
    IF s = <<>> THEN <<>>
    ELSE IF IsAlnum(Head(s)) THEN TakeAlnum(s)
    ELSE FirstAlnumRun(Tail(s))

GeneratedName == <<"G","e","n","e","r","a","t","e","d">> \o ComponentWord

\* lines 108-114
FallbackName(user_prompt) ==
    IF user_prompt # <<>> /\ FirstAlnumRun(user_prompt) # <<>>
    THEN Capitalize(FirstAlnumRun(user_prompt)) \o ComponentWord
    ELSE GeneratedName

ContractReminder == "Focus on providing ONLY a JSON object with keys"

\* lines 130-140: the artifact built in the except branch
FailureComponent(fallback_name, cause, attempt) ==
    AngularComponent(fallback_name, <<>>, <<>>, <<>>,
                     << <<"JSON Error", cause, ContractReminder>> >>, attempt)

\* mutant: only the first error is carried forward
PreviousErrorsFirst(req) ==
    IF req.current_component # None /\ req.current_component.validation_errors # <<>>
    THEN Some(<<req.current_component.validation_errors[1]>>)
    ELSE None

\* lines 91-94: the previous_errors argument of angular_generator_prompt
PreviousErrors(req) ==
    IF req.current_component # None /\ req.current_component.validation_errors # <<>>
    THEN Some(req.current_component.validation_errors)
    ELSE None

MustFixHeader == <<"PREVIOUS VALIDATION ERRORS - you MUST fix ALL of these before responding:">>

\* prompts.py lines 45-52: error_section, a header line followed by one
\* line "- e" per error, or nothing (None and the empty list are both falsy)
ErrorSection(errors) ==
    IF errors = None \/ errors.value = <<>> THEN <<>>
    ELSE <<MustFixHeader>>
         \o [i \in 1..Len(errors.value) |-> <<"- ">> \o errors.value[i]]

\* mutant: every new artifact starts counting at 0
AttemptReset(req) == 0

\* line 96
Attempt(req) ==
    IF req.current_component # None THEN req.current_component.retry_count ELSE 0

\* mutant: an object without behavior or markup text is taken as it is
ComponentFromUnchecked(req, parsed) ==
    IF ~parsed.ok
    THEN FailureComponent(FallbackName(req.user_prompt), "JSONDecodeError", Attempt(req))
    ELSE IF ~parsed.isdict
    THEN FailureComponent(FallbackName(req.user_prompt), "AttributeError", Attempt(req))
    ELSE AngularComponent(Get(parsed.data, "component_name",
                              FallbackName(req.user_prompt)),
                          Get(parsed.data, "typescript_code", <<>>),
                          Get(parsed.data, "html_template", <<>>),
                          Get(parsed.data, "scss_styles", <<>>),
                          <<>>, Attempt(req))

\* lines 118-140: the component built from the outcome of _robust_json_parse
ComponentFrom(req, parsed) ==
    LET attempt == Attempt(req)
        fallback_name == FallbackName(req.user_prompt)
        data == parsed.data
    IN  IF ~parsed.ok
        THEN FailureComponent(fallback_name, "JSONDecodeError", attempt)
        ELSE IF ~parsed.isdict
        THEN FailureComponent(fallback_name, "AttributeError", attempt)
        ELSE IF Get(data, "typescript_code", <<>>) = <<>>
                \/ Get(data, "html_template", <<>>) = <<>>
        THEN FailureComponent(fallback_name,
                              "KeyError: JSON missing required code fields", attempt)
        ELSE AngularComponent(Get(data, "component_name", fallback_name),
                              Get(data, "typescript_code", <<>>),
                              Get(data, "html_template", <<>>),
                              Get(data, "scss_styles", <<>>),
                              <<>>, attempt)

\* lines 116-140: the component built from the model's text
BuildComponent(req, raw) ==
    Only({ComponentFrom(req, parsed) : parsed \in {_robust_json_parse(raw)}})

\* generator_node, given the text the model call returned
generator_node(req, raw) ==
    [req EXCEPT !.current_component = BuildComponent(req, raw)]

\* ---------------------------------------------------------------------------
\* Node: validator (validator_node)
\* ---------------------------------------------------------------------------

RECURSIVE UpToFence(_)
UpToFence(text) ==
    IF text = <<>> \/ Head(text) = "fence" THEN <<>>
    ELSE <<Head(text)>> \o UpToFence(Tail(text))

\* lines 223-228: the text handed to json.loads
CriticText(critic_raw) ==
    IF critic_raw # <<>> /\ Head(critic_raw) = "fence"
    THEN LET inner == UpToFence(Tail(critic_raw))
         IN  IF inner # <<>> /\ Head(inner) = "json" THEN Tail(inner) ELSE inner
    ELSE critic_raw

\* mutant: a critic that raised or answered something unusable is reported
\* as a violation
CriticErrorsReporting(out) ==
    IF out.raises THEN << <<"LLM critic call failed">> >>
    ELSE LET result == JsonLoads(CriticText(out.content))
         IN  IF ~result.ok \/ ~result.isdict
             THEN << <<"LLM critic call failed">> >>
             ELSE IF ~Get(result.data, "passed", TRUE)
             THEN Get(result.data, "errors", <<>>)
             ELSE <<>>

\* mutant: the verdict's list is taken whatever its passed flag says
CriticErrorsUnconditional(out) ==
    IF out.raises THEN <<>>
    ELSE LET result == JsonLoads(CriticText(out.content))
         IN  IF ~result.ok \/ ~result.isdict THEN <<>>
             ELSE Get(result.data, "errors", <<>>)

\* mutant: a verdict with passed = false and nothing listed is itself a
\* violation
CriticErrorsByFlag(out) ==
    IF out.raises THEN <<>>
    ELSE LET result == JsonLoads(CriticText(out.content))
         IN  IF ~result.ok \/ ~result.isdict THEN <<>>
             ELSE IF ~Get(result.data, "passed", TRUE)
             THEN IF Get(result.data, "errors", <<>>) = <<>>
                  THEN << <<"Critic rejected the component">> >>
                  ELSE Get(result.data, "errors", <<>>)
             ELSE <<>>

\* lines 220-234: what layer 2 adds to errors; out.raises stands for an
\* exception of llm.invoke, caught at line 233 like the parse failures
CriticErrors(out) ==
    IF out.raises THEN <<>>
    ELSE LET result == JsonLoads(CriticText(out.content))
         IN  IF ~result.ok \/ ~result.isdict THEN <<>>
             ELSE IF ~Get(result.data, "passed", TRUE)
             THEN Get(result.data, "errors", <<>>)
             ELSE <<>>

\* mutant: the critic is called whatever layer 1 found
CriticInvokedAlways(rule_errors) == TRUE

\* line 218: is the critic called
CriticInvoked(rule_errors) == rule_errors = <<>>

\* mutant: one error is tolerated
PassedOffByOne(errors) == Len(errors) <= 1

\* line 238
Passed(errors) == Len(errors) = 0

\* mutant: the pass leaves the counter as it was
NextRetryCountStuck(n) == n

\* line 239
NextRetryCount(n) == n + 1

\* mutant: the pass adds its findings to the list the artifact carries
UpdateComponentKeeping(component, errors) ==
    [component EXCEPT !.validation_errors = component.validation_errors \o errors,
                      !.validation_passed = Passed(component.validation_errors \o errors),
                      !.retry_count = NextRetryCount(component.retry_count)]

\* lines 236-239: the component after the pass, given the merged errors
UpdateComponent(component, errors) ==
    [component EXCEPT !.validation_errors = errors,
                      !.validation_passed = Passed(errors),
                      !.retry_count = NextRetryCount(component.retry_count)]

\* mutant: a pass that leaves errors also marks the request
ValidateWithStatus(req, rule_errors, out) ==
    LET errors == IF CriticInvoked(rule_errors)
                  THEN rule_errors \o CriticErrors(out)
                  ELSE rule_errors
    IN  [req EXCEPT !.current_component =
                       UpdateComponent(req.current_component, errors),
                    !.status = IF errors = <<>> THEN req.status ELSE "FAILED"]

\* lines 217-245, given what layer 1 found and the outcome of the critic
\* call (read only when the critic is invoked)
ValidateWith(req, rule_errors, out) ==
    LET errors == IF CriticInvoked(rule_errors)
                  THEN rule_errors \o CriticErrors(out)
                  ELSE rule_errors
    IN  [req EXCEPT !.current_component =
                       UpdateComponent(req.current_component, errors)]

\* validator_node, given the outcome of the critic call
validator_node(req, out) ==
    Only({ ValidateWith(req, rule_errors, out) :
             rule_errors \in {RuleErrors(req.current_component, _load_design_system)} })

\* ---------------------------------------------------------------------------
\* Node: corrector, conditional edge
\* ---------------------------------------------------------------------------

\* mutant: the corrector empties the error list before the retry
corrector_node_clearing(req) ==
    [req EXCEPT !.current_component.validation_errors = <<>>]

\* corrector_node: logs and returns state
corrector_node(req) == req

\* mutant: the retry budget is never consulted
should_retry_unbounded(req) ==
    IF req.current_component.validation_passed THEN "finalize" ELSE "correct"

\* mutant: > instead of >=
should_retry_strict(req) ==
    LET component == req.current_component
    IN  IF component.validation_passed THEN "finalize"
        ELSE IF component.retry_count > MAX_RETRIES THEN "finalize"
        ELSE "correct"

\* mutant: the budget is taken as spent one pass early
should_retry_early(req) ==
    LET component == req.current_component
    IN  IF component.validation_passed THEN "finalize"
        ELSE IF component.retry_count >= MAX_RETRIES - 1 THEN "finalize"
        ELSE "correct"

\* should_retry
should_retry(req) ==
    LET component == req.current_component
    IN  IF component.validation_passed THEN "finalize"
        ELSE IF component.retry_count >= MAX_RETRIES THEN "finalize"
        ELSE "correct"

\* ---------------------------------------------------------------------------
\* Node: finalizer (finalizer_node)
\* ---------------------------------------------------------------------------

RECURSIVE RemoveAll(_, _)
\* s.replace(w, "")
RemoveAll(s, w) ==
    IF s = <<>> THEN <<>>
    ELSE IF Len(s) >= Len(w) /\ SubSeq(s, 1, Len(w)) = w
    THEN RemoveAll(SubSeq(s, Len(w) + 1, Len(s)), w)
    ELSE <<Head(s)>> \o RemoveAll(Tail(s), w)

RECURSIVE Strip(_)
\* s.strip()
Strip(s) ==
    IF s = <<>> THEN <<>>
    ELSE IF Head(s) = " " THEN Strip(Tail(s))
    ELSE IF s[Len(s)] = " " THEN Strip(SubSeq(s, 1, Len(s) - 1))
    ELSE s

RECURSIVE Hyphenate(_, _)
\* re.sub(r"(?<!^)(?=[A-Z])", "-", s), from position i on
Hyphenate(s, i) ==
    IF i > Len(s) THEN <<>>
    ELSE (IF i > 1 /\ IsUpper(s[i]) THEN <<"-", s[i]>> ELSE <<s[i]>>)
         \o Hyphenate(s, i + 1)

\* lines 281-282; each intermediate string is bound as a value, which TLC
\* then computes once
KebabName(component_name) ==
    Only({ LowerStr(hyphenated) :
             hyphenated \in { Hyphenate(name_stripped, 1) :
                 name_stripped \in { Strip(removed) :
                     removed \in {RemoveAll(component_name, ComponentWord)} } } })

\* line 283
BasePath(kebab_name) == <<"components/">> \o kebab_name \o <<"/">> \o kebab_name

\* write_file.run({"path": path, "content": content}) of agent/tools.py
WriteFile(store, path, content) == (path :> content) @@ store

\* mutant: an artifact that did not pass is not written
WriteAtOnlyPassed(store, base_path, component) ==
    IF ~component.validation_passed THEN store
    ELSE
    LET s1 == WriteFile(store, base_path \o <<".component.ts">>, component.typescript_code)
        s2 == WriteFile(s1, base_path \o <<".component.html">>, component.html_template)
    IN  WriteFile(s2, base_path \o <<".component.scss">>, component.scss_styles)

\* lines 287-289, given base_path
WriteAt(store, base_path, component) ==
    LET s1 == WriteFile(store, base_path \o <<".component.ts">>, component.typescript_code)
        s2 == WriteFile(s1, base_path \o <<".component.html">>, component.html_template)
    IN  WriteFile(s2, base_path \o <<".component.scss">>, component.scss_styles)

\* lines 281-289
WriteComponentFiles(store, component) ==
    Only({ WriteAt(store, base_path, component) :
             base_path \in { BasePath(kebab_name) :
                 kebab_name \in {KebabName(component.component_name)} } })

\* mutant: the artifact is written but not handed over as final_component
finalizer_node_forgetful(req) == [req EXCEPT !.status = "DONE"]

\* mutant: the status is left as it was
finalizer_node_unmarked(req) ==
    [req EXCEPT !.final_component = req.current_component]

\* lines 294-296
finalizer_node(req) ==
    [req EXCEPT !.final_component = req.current_component, !.status = "DONE"]

\* ---------------------------------------------------------------------------
\* Graph assembly (lines 331-350)
\* ---------------------------------------------------------------------------

EntryPoint == "generator"

\* mutant: an artifact that parsed goes from the generator straight to the
\* finalizer
EdgeFromSkipping(node, req) ==
    CASE node = "generator" ->
           (IF req.current_component.validation_errors = <<>>
            THEN "finalizer" ELSE "validator")
      [] node = "validator" ->
           (IF should_retry(req) = "finalize" THEN "finalizer" ELSE "corrector")
      [] node = "corrector" -> "generator"
      [] node = "finalizer" -> "END"

\* mutant: the corrector hands the same artifact back to the validator
EdgeFromRevalidating(node, req) ==
    CASE node = "generator" -> "validator"
      [] node = "validator" ->
           (IF should_retry(req) = "finalize" THEN "finalizer" ELSE "corrector")
      [] node = "corrector" -> "validator"
      [] node = "finalizer" -> "END"

\* the node that follows node, given the request node returned
EdgeFrom(node, req) ==
    CASE node = "generator" -> "validator"
      [] node = "validator" ->
           (IF should_retry(req) = "finalize" THEN "finalizer" ELSE "corrector")
      [] node = "corrector" -> "generator"
      [] node = "finalizer" -> "END"

\* ---------------------------------------------------------------------------
\* The model gateway: what llm.invoke can do
\* ---------------------------------------------------------------------------

Raises == [raises |-> TRUE, content |-> <<>>]
Returns(text) == [raises |-> FALSE, content |-> text]

GenResponses ==
    { <<"{", "G_clean", "}">>,
      <<"prose", "fence", "json", "{", "G_two_violations", "}", "fence">>,
      <<"{", "G_escaped", "}", "prose">>,
      <<"{", "G_no_html", "}">>,
      <<"{", "G_empty_ts", "}">>,
      <<"{", "G_no_name_tags", "}">>,
      <<"fence", "json", "123", "fence">>,
      <<"prose">> }

CriticResponses ==
    { <<"{", "V_pass", "}">>,
      <<"{", "V_pass_with_errors", "}">>,
      <<"fence", "json", "{", "V_fail", "}", "fence">>,
      <<"{", "V_fail_no_errors", "}">>,
      <<"{", "V_fail_empty", "}">>,
      <<"prose", "{", "V_fail", "}">> }

GenOutcomes == {Raises} \cup {Returns(r) : r \in GenResponses}
CriticOutcomes == {Raises} \cup {Returns(r) : r \in CriticResponses}

\* what the user types
Prompts == { <<"l","o","g","i","n"," ","f","o","r","m">>, <<"?","!">> }

\* ---------------------------------------------------------------------------
\* The caller: main.py run()
\* ---------------------------------------------------------------------------

\* lines 118-124
PreviousTurn(component) ==
    [role |-> "assistant",
     content |-> [kind |-> "Previously generated component",
                  component_name |-> component.component_name,
                  typescript_code |-> component.typescript_code,
                  html_template |-> component.html_template]]

\* line 127
UserTurn(user_input) ==
    [role |-> "user", content |-> [kind |-> "prompt", text |-> user_input]]

\* lines 154-157
GeneratedTurn(component) ==
    [role |-> "assistant",
     content |-> [kind |-> "Generated successfully",
                  component_name |-> component.component_name]]

\* lines 115-124: history with the previous component appended, if any
WithPrevious(hist, prev) ==
    IF prev # None /\ prev.final_component # None
    THEN Append(hist, PreviousTurn(prev.final_component))
    ELSE hist

\* mutant: the whole history, the turn just typed included
AllButLastKeeping(hist) == hist

\* history[:-1]
AllButLast(hist) == SubSeq(hist, 1, Len(hist) - 1)

Init ==
    /\ request = None
    /\ pc = "idle"
    /\ lastNode = "START"
    /\ genCalls = 0
    /\ genOutcome = "none"
    /\ criticCalls = 0
    /\ criticCalled = FALSE
    /\ valPasses = 0
    /\ routeEvals = 0
    /\ steps = 0
    /\ raised = "none"
    /\ files = <<>>
    /\ cli_request = None
    /\ history = <<>>
    /\ turn = 0
    /\ design_system = DesignSystem
    /\ previous_errors = None
    /\ messages = <<>>
    /\ response = <<>>
    /\ critic_out = None
    /\ layer1 = <<>>
    /\ passErrors = <<>>
    /\ trace = <<>>
    /\ runs = <<>>
    /\ _STORE = <<>>
    /\ session = None
    /\ responses = <<>>

\* main.py lines 114-142: build a new request and invoke the graph
Invoke(user_input) ==
    /\ pc = "idle"
    /\ turn < MaxTurns
    /\ LET hist == Append(WithPrevious(history, cli_request), UserTurn(user_input))
       IN  /\ history' = hist
           /\ request' = ComponentRequest(user_input, AllButLast(hist))
    /\ pc' = EntryPoint
    /\ lastNode' = "START"
    /\ genCalls' = 0
    /\ genOutcome' = "none"
    /\ criticCalls' = 0
    /\ criticCalled' = FALSE
    /\ valPasses' = 0
    /\ routeEvals' = 0
    /\ steps' = 0
    /\ raised' = "none"
    /\ turn' = turn + 1
    /\ previous_errors' = None
    /\ messages' = <<>>
    /\ response' = <<>>
    /\ critic_out' = None
    /\ layer1' = <<>>
    /\ passErrors' = <<>>
    /\ trace' = <<>>
    /\ UNCHANGED <<files, cli_request, design_system, runs, _STORE, session, responses>>

\* an exception leaves the node and the graph
RaiseOut(cause) ==
    /\ pc' = "raised"
    /\ raised' = cause
    /\ UNCHANGED <<request, lastNode, criticCalls, criticCalled, valPasses,
                   routeEvals, steps, files, cli_request, history, turn,
                   design_system, runs,
                   _STORE, session, responses, critic_out, layer1, passErrors, trace>>

\* the graph's step ceiling ({"recursion_limit": 20})
LimitReached == steps >= RECURSION_LIMIT

\* mutant: llm.invoke sits inside the try block, so its exception becomes a
\* failure artifact
GeneratorCatching ==
    /\ pc = "generator"
    /\ ~LimitReached
    /\ \E out \in GenOutcomes :
         /\ genCalls' = genCalls + 1
         /\ genOutcome' = IF out.raises THEN "raised" ELSE "returned"
         /\ request' = IF out.raises
                       THEN [request EXCEPT !.current_component =
                               FailureComponent(FallbackName(request.user_prompt),
                                                "GatewayFailure", Attempt(request))]
                       ELSE generator_node(request, out.content)
         /\ pc' = EdgeFrom("generator", request')
         /\ lastNode' = "generator"
         /\ trace' = Append(trace, "generator")
         /\ steps' = steps + 1
         /\ previous_errors' = PreviousErrors(request)
         /\ messages' = ErrorSection(previous_errors')
         /\ response' = out.content
         /\ UNCHANGED <<criticCalls, criticCalled, valPasses, routeEvals,
                        raised, files, cli_request, history, turn,
                        design_system, runs,
                        _STORE, session, responses, critic_out, layer1, passErrors>>

Generator ==
    /\ pc = "generator"
    /\ IF LimitReached
       THEN /\ RaiseOut("GraphRecursionError")
            /\ UNCHANGED <<genCalls, genOutcome, previous_errors, messages, response>>
       ELSE \E out \in GenOutcomes :
              /\ genCalls' = genCalls + 1
              /\ genOutcome' = IF out.raises THEN "raised" ELSE "returned"
              /\ previous_errors' = PreviousErrors(request)
              /\ messages' = ErrorSection(previous_errors')
              /\ response' = out.content
              /\ IF out.raises
                 THEN RaiseOut("GatewayFailure")
                 ELSE /\ request' = generator_node(request, out.content)
                      /\ pc' = EdgeFrom("generator", request')
                      /\ lastNode' = "generator"
                      /\ trace' = Append(trace, "generator")
                      /\ steps' = steps + 1
                      /\ UNCHANGED <<criticCalls, criticCalled, valPasses, routeEvals,
                                     raised, files, cli_request, history, turn,
                                     design_system, runs,
                                     _STORE, session, responses, critic_out, layer1, passErrors>>

\* mutant: the critic call is outside the try block, so its exception
\* leaves the node
ValidatorPropagating ==
    /\ pc = "validator"
    /\ ~LimitReached
    /\ \E invoked \in {CriticInvoked(RuleErrors(request.current_component,
                                                _load_design_system))} :
           \E out \in (IF invoked THEN CriticOutcomes ELSE {Returns(<<>>)}) :
             IF out.raises
             THEN /\ RaiseOut("CriticUnavailable")
                  /\ UNCHANGED <<genCalls, genOutcome, previous_errors, messages, response>>
             ELSE /\ request' = validator_node(request, out)
                  /\ criticCalled' = invoked
                  /\ criticCalls' = criticCalls + (IF invoked THEN 1 ELSE 0)
                  /\ critic_out' = IF invoked THEN out ELSE None
                  /\ layer1' = RuleErrors(request.current_component, _load_design_system)
                  /\ passErrors' = Append(passErrors,
                                          request'.current_component.validation_errors)
                  /\ response' = <<>>
                  /\ valPasses' = valPasses + 1
                  /\ routeEvals' = routeEvals + 1
                  /\ pc' = EdgeFrom("validator", request')
                  /\ lastNode' = "validator"
                  /\ trace' = Append(trace, "validator")
                  /\ steps' = steps + 1
                  /\ UNCHANGED <<genCalls, genOutcome, raised, files, cli_request,
                                 history, turn, design_system, runs,
                                 _STORE, session, responses, previous_errors, messages>>

Validator ==
    /\ pc = "validator"
    /\ IF LimitReached
       THEN /\ RaiseOut("GraphRecursionError")
            /\ UNCHANGED <<genCalls, genOutcome, previous_errors, messages, response>>
       ELSE \E rule_errors \in {RuleErrors(request.current_component,
                                            _load_design_system)} :
              \E invoked \in {CriticInvoked(rule_errors)} :
                \E out \in (IF invoked THEN CriticOutcomes ELSE {Raises}) :
                  /\ request' = ValidateWith(request, rule_errors, out)
                  /\ criticCalled' = invoked
                  /\ criticCalls' = criticCalls + (IF invoked THEN 1 ELSE 0)
                  /\ critic_out' = IF invoked THEN out ELSE None
                  /\ layer1' = rule_errors
                  /\ passErrors' = Append(passErrors,
                                          request'.current_component.validation_errors)
                  /\ response' = <<>>
                  /\ valPasses' = valPasses + 1
                  /\ routeEvals' = routeEvals + 1
                  /\ pc' = EdgeFrom("validator", request')
                  /\ lastNode' = "validator"
                  /\ trace' = Append(trace, "validator")
                  /\ steps' = steps + 1
                  /\ UNCHANGED <<genCalls, genOutcome, raised, files, cli_request,
                                 history, turn, design_system, runs,
                                 _STORE, session, responses, previous_errors, messages>>

\* mutant: the corrector asks the model for a fix itself
CorrectorCalling ==
    /\ pc = "corrector"
    /\ ~LimitReached
    /\ request' = corrector_node(request)
    /\ genCalls' = genCalls + 1
    /\ pc' = EdgeFrom("corrector", request')
    /\ lastNode' = "corrector"
    /\ trace' = Append(trace, "corrector")
    /\ steps' = steps + 1
    /\ critic_out' = None
    /\ UNCHANGED <<genOutcome, criticCalls, criticCalled, valPasses, routeEvals,
                   raised, files, cli_request, history, turn,
                   design_system, runs,
                   _STORE, session, responses, previous_errors, messages, response, layer1,
                   passErrors>>

Corrector ==
    /\ pc = "corrector"
    /\ IF LimitReached
       THEN /\ RaiseOut("GraphRecursionError")
            /\ UNCHANGED <<genCalls, genOutcome, previous_errors, messages, response>>
       ELSE /\ request' = corrector_node(request)
            /\ pc' = EdgeFrom("corrector", request')
            /\ lastNode' = "corrector"
            /\ trace' = Append(trace, "corrector")
            /\ steps' = steps + 1
            /\ critic_out' = None
            /\ UNCHANGED <<genCalls, genOutcome, criticCalls, criticCalled, valPasses, routeEvals,
                           raised, files, cli_request, history, turn,
                           design_system, runs,
                           _STORE, session, responses, previous_errors, messages, response, layer1,
                           passErrors>>

Finalizer ==
    /\ pc = "finalizer"
    /\ IF LimitReached
       THEN /\ RaiseOut("GraphRecursionError")
            /\ UNCHANGED <<genCalls, genOutcome, previous_errors, messages, response>>
       ELSE /\ files' = WriteComponentFiles(files, request.current_component)
            /\ request' = finalizer_node(request)
            /\ pc' = EdgeFrom("finalizer", request')
            /\ lastNode' = "finalizer"
            /\ trace' = Append(trace, "finalizer")
            /\ steps' = steps + 1
            /\ critic_out' = None
            /\ UNCHANGED <<genCalls, genOutcome, criticCalls, criticCalled, valPasses, routeEvals,
                           raised, cli_request, history, turn,
                           design_system, runs,
                           _STORE, session, responses, previous_errors, messages, response, layer1,
                           passErrors>>

\* main.py lines 148-157: the graph returned
Return ==
    /\ pc = "END"
    /\ cli_request' = request
    /\ history' = IF request.final_component # None
                  THEN Append(history, GeneratedTurn(request.final_component))
                  ELSE history
    /\ pc' = "idle"
    /\ UNCHANGED <<request, lastNode, genCalls, genOutcome, criticCalls, criticCalled, valPasses,
                   routeEvals, steps, raised, files, turn,
                   design_system, runs,
                   _STORE, session, responses, previous_errors, messages, response, critic_out,
                   layer1,
                   passErrors, trace>>

\* main.py lines 143-146: the graph raised
PipelineFailed ==
    /\ pc = "raised"
    /\ pc' = "idle"
    /\ UNCHANGED <<request, lastNode, genCalls, genOutcome, criticCalls, criticCalled, valPasses,
                   routeEvals, steps, raised, files, cli_request, history, turn,
                   design_system, runs,
                   _STORE, session, responses, previous_errors, messages, response, critic_out,
                   layer1,
                   passErrors, trace>>

Next ==
    \/ \E user_input \in Prompts : Invoke(user_input)
    \/ Generator
    \/ Validator
    \/ Corrector
    \/ Finalizer
    \/ Return
    \/ PipelineFailed

Spec == Init /\ [][Next]_vars

\* the steps the program takes by itself once a run is started (the user's
\* next input, Invoke, is not among them)
Step == Generator \/ Validator \/ Corrector \/ Finalizer \/ Return \/ PipelineFailed

\* the sequential pipeline and its caller keep running: a started run is
\* not abandoned between two nodes
FairSpec == Spec /\ WF_vars(Step)

\* ---------------------------------------------------------------------------
\* The web caller: server.py generate() and session_store.py
\*
\* generate() is a coroutine that calls component_agent.invoke without
\* awaiting anything, so one server process serves one request at a time.
\* ---------------------------------------------------------------------------

\* Session(session_id=sid)
Session(sid) ==
    [session_id |-> sid, conversation_history |-> <<>>, last_component |-> None,
     chat_log |-> <<>>]

\* str(uuid.uuid4()): an id no session has yet
NewSessionId(sessions) == Cardinality(DOMAIN sessions) + 1

\* create_session(): _STORE afterwards
create_session(sessions) ==
    (NewSessionId(sessions) :> Session(NewSessionId(sessions))) @@ sessions

\* get_or_create(session_id): _STORE afterwards and the id of the session returned
get_or_create(sessions, session_id) ==
    IF session_id # None /\ session_id.value \in DOMAIN sessions
    THEN [sessions |-> sessions, sid |-> session_id.value]
    ELSE [sessions |-> create_session(sessions), sid |-> NewSessionId(sessions)]

\* ChatEntry(role=..., content=..., summary=...)
ChatEntry(role, content, summary) ==
    [role |-> role, content |-> content, summary |-> summary]

\* append_user_turn(session, prompt)
append_user_turn(sess, prompt) ==
    [sess EXCEPT !.conversation_history = Append(@, UserTurn(prompt)),
                 !.chat_log = Append(@, ChatEntry("user", UserTurn(prompt).content, ""))]

\* the message of append_assistant_turn
GeneratedComponentTurn(component_name) ==
    [role |-> "assistant",
     content |-> [kind |-> "Generated component successfully",
                  component_name |-> component_name]]

\* append_assistant_turn(session, component_name, summary)
append_assistant_turn(sess, component_name, summary) ==
    [sess EXCEPT !.conversation_history =
                     Append(@, GeneratedComponentTurn(component_name)),
                 !.chat_log =
                     Append(@, ChatEntry("assistant",
                                         GeneratedComponentTurn(component_name).content,
                                         summary))]

\* _build_summary(prompt, component_name, passed)
_build_summary(prompt, component_name, passed) ==
    [prompt |-> prompt, component_name |-> component_name, passed |-> passed]

\* lines 88-99: the history handed to the graph
HistoryForAgent(sess) ==
    IF sess.last_component # None
    THEN Append(sess.conversation_history, PreviousTurn(sess.last_component))
    ELSE sess.conversation_history

\* the bodies a client may post: no session id, or the id the first session
\* gets (unknown to the store until that session exists)
GenerateRequests ==
    { [session_id |-> sid, prompt |-> prompt] :
        sid \in {None, Some(1)}, prompt \in Prompts }

\* mutant: the user turn is not appended before the graph is invoked
GenerateAppendingLate(body) ==
    /\ pc = "idle"
    /\ session = None
    /\ turn < MaxTurns
    /\ \E got \in {get_or_create(_STORE, body.session_id)} :
         /\ request' = ComponentRequest(body.prompt, HistoryForAgent(got.sessions[got.sid]))
         /\ _STORE' = got.sessions
         /\ session' = Some(got.sid)
    /\ pc' = EntryPoint
    /\ lastNode' = "START"
    /\ genCalls' = 0
    /\ genOutcome' = "none"
    /\ criticCalls' = 0
    /\ criticCalled' = FALSE
    /\ valPasses' = 0
    /\ routeEvals' = 0
    /\ steps' = 0
    /\ raised' = "none"
    /\ turn' = turn + 1
    /\ previous_errors' = None
    /\ messages' = <<>>
    /\ response' = <<>>
    /\ critic_out' = None
    /\ layer1' = <<>>
    /\ passErrors' = <<>>
    /\ trace' = <<>>
    /\ UNCHANGED <<files, cli_request, history, design_system, runs, responses>>

\* generate(), lines 85-115: up to the call of the graph
Generate(body) ==
    /\ pc = "idle"
    /\ session = None
    /\ turn < MaxTurns
    /\ \E got \in {get_or_create(_STORE, body.session_id)} :
         /\ request' = ComponentRequest(body.prompt, HistoryForAgent(got.sessions[got.sid]))
         /\ _STORE' = [got.sessions EXCEPT ![got.sid] = append_user_turn(@, body.prompt)]
         /\ session' = Some(got.sid)
    /\ pc' = EntryPoint
    /\ lastNode' = "START"
    /\ genCalls' = 0
    /\ genOutcome' = "none"
    /\ criticCalls' = 0
    /\ criticCalled' = FALSE
    /\ valPasses' = 0
    /\ routeEvals' = 0
    /\ steps' = 0
    /\ raised' = "none"
    /\ turn' = turn + 1
    /\ previous_errors' = None
    /\ messages' = <<>>
    /\ response' = <<>>
    /\ critic_out' = None
    /\ layer1' = <<>>
    /\ passErrors' = <<>>
    /\ trace' = <<>>
    /\ UNCHANGED <<files, cli_request, history, design_system, runs, responses>>

\* what generate() leaves behind when it ends: its answer; the request and
\* the run it held are gone with its frame
Answer(status_code) ==
    /\ responses' = Append(responses, [session_id |-> session.value,
                                        status_code |-> status_code])
    /\ session' = None
    /\ pc' = "idle"
    /\ request' = None
    /\ lastNode' = "START"
    /\ genCalls' = 0
    /\ genOutcome' = "none"
    /\ criticCalls' = 0
    /\ criticCalled' = FALSE
    /\ valPasses' = 0
    /\ routeEvals' = 0
    /\ steps' = 0
    /\ raised' = "none"
    /\ previous_errors' = None
    /\ messages' = <<>>
    /\ response' = <<>>
    /\ critic_out' = None
    /\ layer1' = <<>>
    /\ passErrors' = <<>>
    /\ trace' = <<>>
    /\ UNCHANGED <<files, cli_request, history, turn, design_system, runs>>

\* generate(), lines 119-143: the graph returned
GenerateReturn ==
    /\ pc = "END"
    /\ session # None
    /\ LET comp == IF request.final_component # None THEN request.final_component
                   ELSE request.current_component
       IN  IF comp = None
           THEN Answer(500) /\ UNCHANGED _STORE
           ELSE /\ _STORE' =
                     [_STORE EXCEPT ![session.value] =
                        append_assistant_turn(
                          [@ EXCEPT !.last_component = comp], comp.component_name,
                          _build_summary(request.user_prompt, comp.component_name,
                                         comp.validation_passed))]
                /\ Answer(200)

\* generate(), lines 116-117: the graph raised
GenerateFailed ==
    /\ pc = "raised"
    /\ session # None
    /\ Answer(500)
    /\ UNCHANGED _STORE

\* a run in progress, whoever started it
Pipeline ==
    \/ Generator
    \/ Validator
    \/ Corrector
    \/ Finalizer

\* The CLI and the server are two programs: a behaviour is the life of one
\* of them, the CLI if the first run is started by Invoke, the server if it
\* is started by Generate.
CallersNext ==
    \/ (session = None /\ _STORE = <<>>) /\ Next
    \/ session # None /\ Pipeline
    \/ \E body \in GenerateRequests : history = <<>> /\ Generate(body)
    \/ GenerateReturn
    \/ GenerateFailed

CallersSpec == Init /\ [][CallersNext]_vars

\* ---------------------------------------------------------------------------
\* The rule layer on drawn payloads
\*
\* The first generator step of a run has returned; the payloads of the JSON
\* object the model wrote are drawn from the sets below, and the validator
\* runs on the component built from them.
\* ---------------------------------------------------------------------------

SeqsUpTo(S, n) == UNION {[1..k -> S] : k \in 0..n}

\* the color literals the model may write: an upper-case shorthand of a
\* palette color, a color absent from the palette, a palette color in another
\* case, a shorthand whose expansion is absent, two digits only, seven digits
HexLiterals ==
    { Hex(<<"F","F","F">>), Hex(<<"1","2","3","a","b","c">>),
      Hex(<<"6","3","6","6","f","1">>), Hex(<<"6","3","6">>),
      Hex(<<"f","f">>), Hex(<<"f","f","f","f","f","f","f">>) }

\* the tags the model may write
TagTokens ==
    { OpenTag(<<"d","i","v">>), CloseTag(<<"d","i","v">>),
      SelfClose(<<"d","i","v">>), SelfCloseAttr(<<"d","i","v">>),
      OpenAttr(<<"l","i">>), CloseTag(<<"l","i">>),
      SelfCloseAttr(<<"l","i","n","k">>) }

TsPayloads == {TsGood, TsNoStandalone, <<TClass>>}

\* the typescript_code, html_template and scss_styles of the parsed object:
\* either the colors vary (in the markup and in the styles) or the tags do
DrawnPayloads ==
    { [typescript_code |-> ts, html_template |-> <<TWords>> \o markup_colors,
       scss_styles |-> <<TSelector, TLBrace>> \o style_colors \o <<TRBrace>>] :
        ts \in TsPayloads, markup_colors \in SeqsUpTo(HexLiterals, 1),
        style_colors \in SeqsUpTo(HexLiterals, MaxTokens) }
    \cup
    { [typescript_code |-> TsGood, html_template |-> <<TWords>> \o tags,
       scss_styles |-> ScssGood] :
        tags \in SeqsUpTo(TagTokens, MaxTokens) }

RuleInit ==
    /\ \E user_input \in Prompts, data \in DrawnPayloads :
         /\ history = <<UserTurn(user_input)>>
         /\ request = [ComponentRequest(user_input, <<>>) EXCEPT !.current_component =
                          ComponentFrom(ComponentRequest(user_input, <<>>),
                                        [ok |-> TRUE, isdict |-> TRUE, data |-> data])]
         \* the object's text, its member list written out
         /\ response = <<"{", data, "}">>
    /\ pc = "validator"
    /\ lastNode = "generator"
    /\ genCalls = 1
    /\ genOutcome = "returned"
    /\ criticCalls = 0
    /\ criticCalled = FALSE
    /\ valPasses = 0
    /\ routeEvals = 0
    /\ steps = 1
    /\ raised = "none"
    /\ files = <<>>
    /\ cli_request = None
    /\ turn = 1
    /\ design_system = DesignSystem
    /\ previous_errors = None
    /\ messages = <<>>
    /\ critic_out = None
    /\ layer1 = <<>>
    /\ passErrors = <<>>
    /\ trace = <<"generator">>
    /\ runs = <<>>
    /\ _STORE = <<>>
    /\ session = None
    /\ responses = <<>>

RuleSpec == RuleInit /\ [][Validator]_vars

\* ---------------------------------------------------------------------------
\* The parser on drawn responses
\*
\* The model call of the first generator step has returned (line 105); the
\* text it returned is drawn from the set below, and generator_node goes on
\* from line 106 with it.
\* ---------------------------------------------------------------------------

\* what the model may write around the body of its response
WrapPieces == {"prose", "fence", "json"}

\* the body: one object, a scalar, nothing, an empty object, two objects, an
\* object left open, braces the wrong way round
Bodies ==
    { <<"{", "G_clean", "}">>, <<"{", "G_escaped", "}">>, <<"123">>, <<>>,
      <<"{", "}">>, <<"{", "G_clean", "}", "{", "G_escaped", "}">>,
      <<"{", "G_clean">>, <<"}", "{">> }

DrawnResponses ==
    { lead \o body \o trail :
        lead \in SeqsUpTo(WrapPieces, MaxTokens), body \in Bodies,
        trail \in SeqsUpTo(WrapPieces, MaxTokens - 1) }

ParseInit ==
    /\ \E user_input \in Prompts :
         /\ history = <<UserTurn(user_input)>>
         /\ request = ComponentRequest(user_input, <<>>)
    /\ response \in DrawnResponses
    /\ pc = "parse"
    /\ lastNode = "START"
    /\ genCalls = 1
    /\ genOutcome = "returned"
    /\ criticCalls = 0
    /\ criticCalled = FALSE
    /\ valPasses = 0
    /\ routeEvals = 0
    /\ steps = 0
    /\ raised = "none"
    /\ files = <<>>
    /\ cli_request = None
    /\ turn = 1
    /\ design_system = DesignSystem
    /\ previous_errors = None
    /\ messages = <<>>
    /\ critic_out = None
    /\ layer1 = <<>>
    /\ passErrors = <<>>
    /\ trace = <<>>
    /\ runs = <<>>
    /\ _STORE = <<>>
    /\ session = None
    /\ responses = <<>>

\* generator_node from line 106 to its return
Parse ==
    /\ pc = "parse"
    /\ request' = generator_node(request, response)
    /\ pc' = EdgeFrom("generator", request')
    /\ lastNode' = "generator"
    /\ trace' = Append(trace, "generator")
    /\ steps' = steps + 1
    /\ UNCHANGED <<genCalls, genOutcome, criticCalls, criticCalled, valPasses, routeEvals,
                   raised, files, cli_request, history, turn, design_system, runs,
                   _STORE, session, responses,
                   previous_errors, messages, response, critic_out, layer1, passErrors>>

ParseSpec == ParseInit /\ [][Parse]_vars

\* ---------------------------------------------------------------------------
\* The finalizer on drawn names
\*
\* A first attempt has passed validation; the component_name the model wrote
\* in its object is drawn from the set below.
\* ---------------------------------------------------------------------------

\* what the model may put together into a component_name
NameParts ==
    { <<"L","o","g","i","n">>, <<"F","o","r","m">>, ComponentWord, <<"U","I">>,
      <<"/">>, <<".",".">>, <<" ">> }

RECURSIVE Flatten(_)
\* "".join(parts)
Flatten(parts) ==
    IF parts = <<>> THEN <<>> ELSE Head(parts) \o Flatten(Tail(parts))

DrawnNames == {Flatten(parts) : parts \in SeqsUpTo(NameParts, MaxTokens)}

FinalizeInit ==
    /\ design_system = DesignSystem
    /\ \E user_input \in Prompts, component_name \in DrawnNames :
         /\ history = <<UserTurn(user_input)>>
         /\ request =
              validator_node(
                [ComponentRequest(user_input, <<>>) EXCEPT !.current_component =
                   ComponentFrom(ComponentRequest(user_input, <<>>),
                                 [ok |-> TRUE, isdict |-> TRUE,
                                  data |-> [component_name |-> component_name,
                                            typescript_code |-> TsGood,
                                            html_template |-> HtmlGood,
                                            scss_styles |-> ScssGood]])],
                Returns(<<"{", "V_pass", "}">>))
    /\ pc = "finalizer"
    /\ lastNode = "validator"
    /\ genCalls = 1
    /\ genOutcome = "returned"
    /\ criticCalls = 1
    /\ criticCalled = TRUE
    /\ valPasses = 1
    /\ routeEvals = 1
    /\ steps = 2
    /\ raised = "none"
    /\ files = <<>>
    /\ cli_request = None
    /\ turn = 1
    /\ previous_errors = None
    /\ messages = <<>>
    /\ response = <<>>
    /\ critic_out = Returns(<<"{", "V_pass", "}">>)
    /\ layer1 = <<>>
    /\ passErrors = << <<>> >>
    /\ trace = <<"generator", "validator">>
    /\ runs = <<>>
    /\ _STORE = <<>>
    /\ session = None
    /\ responses = <<>>

FinalizeSpec == FinalizeInit /\ [][Finalizer]_vars

\* ---------------------------------------------------------------------------
\* Two pipeline runs side by side
\*
\* Two callers (two /api/generate requests served by different workers, or
\* the CLI next to the server) have each built a request and called
\* component_agent.invoke.  Each run threads its own request through the
\* nodes; the runs share what the nodes reach outside the request: the
\* palette file and the directory write_file writes to.
\* ---------------------------------------------------------------------------

Runs == {"A", "B"}

\* the variables of the single caller, which takes no part here
callerVars ==
    <<request, pc, lastNode, genCalls, genOutcome, criticCalls, criticCalled, valPasses,
      routeEvals, steps, raised, cli_request, history, turn,
      previous_errors, messages, response, critic_out, layer1, passErrors, trace,
      _STORE, session, responses>>

\* server.py lines 101-112: a request built for the prompt and handed to the graph
StartedRun(user_input) ==
    [pc |-> EntryPoint, request |-> ComponentRequest(user_input, <<>>)]

ConcInit ==
    /\ runs \in [Runs -> {StartedRun(user_input) : user_input \in Prompts}]
    /\ files = <<>>
    /\ design_system = DesignSystem
    /\ request = None
    /\ pc = "idle"
    /\ lastNode = "START"
    /\ genCalls = 0
    /\ genOutcome = "none"
    /\ criticCalls = 0
    /\ criticCalled = FALSE
    /\ valPasses = 0
    /\ routeEvals = 0
    /\ steps = 0
    /\ raised = "none"
    /\ cli_request = None
    /\ history = <<>>
    /\ turn = 0
    /\ previous_errors = None
    /\ messages = <<>>
    /\ response = <<>>
    /\ critic_out = None
    /\ layer1 = <<>>
    /\ passErrors = <<>>
    /\ trace = <<>>
    /\ _STORE = <<>>
    /\ session = None
    /\ responses = <<>>

\* run r after a node returned req
Advance(r, node, req) ==
    [runs EXCEPT ![r] = [pc |-> EdgeFrom(node, req), request |-> req]]

RunGenerator(r) ==
    /\ runs[r].pc = "generator"
    /\ \E out \in GenOutcomes :
         runs' = IF out.raises
                 THEN [runs EXCEPT ![r].pc = "raised"]
                 ELSE Advance(r, "generator", generator_node(runs[r].request, out.content))
    /\ UNCHANGED <<files, design_system, callerVars>>

RunValidator(r) ==
    /\ runs[r].pc = "validator"
    /\ \E rule_errors \in {RuleErrors(runs[r].request.current_component,
                                       _load_design_system)} :
         \E out \in (IF CriticInvoked(rule_errors) THEN CriticOutcomes ELSE {Raises}) :
           runs' = Advance(r, "validator", ValidateWith(runs[r].request, rule_errors, out))
    /\ UNCHANGED <<files, design_system, callerVars>>

RunCorrector(r) ==
    /\ runs[r].pc = "corrector"
    /\ runs' = Advance(r, "corrector", corrector_node(runs[r].request))
    /\ UNCHANGED <<files, design_system, callerVars>>

RunFinalizer(r) ==
    /\ runs[r].pc = "finalizer"
    /\ files' = WriteComponentFiles(files, runs[r].request.current_component)
    /\ runs' = Advance(r, "finalizer", finalizer_node(runs[r].request))
    /\ UNCHANGED <<design_system, callerVars>>

ConcNext ==
    \E r \in Runs :
        \/ RunGenerator(r)
        \/ RunValidator(r)
        \/ RunCorrector(r)
        \/ RunFinalizer(r)

ConcSpec == ConcInit /\ [][ConcNext]_vars

\* ---------------------------------------------------------------------------
\* Properties
\* ---------------------------------------------------------------------------

\* the artifact the pipeline currently holds
cc == request.current_component

\* the artifact of a parse or missing-field failure: three empty payloads
IsEmptyArtifact(c) ==
    c.typescript_code = <<>> /\ c.html_template = <<>> /\ c.scss_styles = <<>>

RunDone ==
    pc = "END" /\ request.status = "DONE" /\ request.final_component # None

\* C1: in one run generator_node is invoked at most MAX_RETRIES + 1 times,
\* whatever the generator returns and whatever the validation passes find.
C1_GeneratorBound == genCalls <= MAX_RETRIES + 1

\* a run whose every validation pass found violations has reached its end
C1_Witness ==
    /\ pc = "END"
    /\ genCalls = 2
    /\ valPasses = 2
    /\ ~request.final_component.validation_passed

\* C2: every run in which no generator model call fails reaches the
\* finalizer and ends with status DONE and final_component set.
C2_Termination ==
    [](pc = "generator" =>
         <>(RunDone \/ (pc = "raised" /\ raised = "GatewayFailure")))

\* a run that went through the correction loop has ended DONE
C2_Witness == RunDone /\ lastNode = "finalizer" /\ valPasses = 2 /\ steps = 6

\* C3: right after a validation pass validation_passed is true iff
\* validation_errors is empty.
C3_PassedIffNoErrors ==
    lastNode = "validator" =>
        (cc.validation_passed <=> cc.validation_errors = <<>>)

\* a pass that called the critic and got findings has just ended
C3_Witness ==
    /\ lastNode = "validator"
    /\ criticCalled
    /\ Len(cc.validation_errors) = 2
    /\ ~cc.validation_passed

\* C4: a validation pass evaluates should_retry once and goes to the
\* finalizer if validation_passed, else to the finalizer if retry_count >=
\* MAX_RETRIES, else to the corrector; the corrector goes to the generator
\* without evaluating it.
C4_Routing ==
    [][ /\ pc = "validator" =>
             /\ routeEvals' = routeEvals + 1
             /\ pc' = IF request'.current_component.validation_passed
                      THEN "finalizer"
                      ELSE IF request'.current_component.retry_count >= MAX_RETRIES
                      THEN "finalizer"
                      ELSE "corrector"
        /\ pc = "corrector" => pc' = "generator" /\ routeEvals' = routeEvals
      ]_vars

\* a failing artifact was routed to the finalizer because the budget is spent
C4_Witness ==
    /\ pc = "finalizer"
    /\ ~cc.validation_passed
    /\ cc.retry_count = MAX_RETRIES
    /\ routeEvals = 2

\* C5: the node that follows the generator is the validator, and the
\* finalizer runs only directly after a validation pass of the artifact the
\* last generator invocation produced.
C5_ValidationNotSkipped ==
    /\ lastNode = "generator" => pc = "validator"
    /\ pc = "validator" => lastNode = "generator"
    /\ pc = "finalizer" =>
         lastNode = "validator" /\ valPasses = genCalls /\ valPasses >= 1

\* the first artifact was clean and is about to be finalized, after its pass
C5_Witness ==
    /\ pc = "finalizer"
    /\ genCalls = 1
    /\ valPasses = 1
    /\ cc.validation_passed

\* C6: the validation pass that follows a parse or missing-field failure of
\* the generator ends with validation_passed = false.
C6_FailureArtifactFails ==
    (lastNode = "validator" /\ IsEmptyArtifact(cc)) => ~cc.validation_passed

\* C7: a run that ends DONE with validation_passed = true has non-empty
\* behavior and markup payloads.
C7_NoEmptyPassedResult ==
    (RunDone /\ request.final_component.validation_passed) =>
        /\ request.final_component.typescript_code # <<>>
        /\ request.final_component.html_template # <<>>

\* C8 as claimed: an exception of the generator's model call never leaves
\* the generator.
C8_GatewayFailureCaught == genOutcome = "raised" => raised = "none"

\* C8 amended: an exception of the generator's model call is not caught: it
\* leaves generator_node and the graph, the request is left as it was, no
\* validation pass follows and the run does not reach DONE.
C8_GatewayFailurePropagates ==
    genOutcome = "raised" =>
        /\ pc \in {"raised", "idle"}
        /\ raised = "GatewayFailure"
        /\ lastNode # "generator"
        /\ valPasses = genCalls - 1
        /\ request.status = "pending"
        /\ request.final_component = None

\* the model call of a retry raised and the run has ended with the exception
C8_Witness == genOutcome = "raised" /\ pc = "raised" /\ genCalls = 2

\* C9: the only exception that ends a run is the one of the generator's
\* model call; a run that ended without DONE made such a call last.
C9_OnlyGatewayFailureAborts ==
    /\ raised \in {"none", "GatewayFailure"}
    /\ pc = "raised" => raised = "GatewayFailure" /\ genOutcome = "raised"
    /\ (pc = "END" \/ (pc = "idle" /\ turn > 0 /\ raised = "none")) =>
         request.status = "DONE"

\* a run ended by the exception although a parse failure and critic
\* findings came before it
C9_Witness ==
    /\ pc = "raised"
    /\ valPasses = 1
    /\ criticCalled
    /\ IsEmptyArtifact(cc)

\* C10: a validation pass calls the critic model exactly when layer 1 found
\* no violation in the artifact.
C10_CriticIffRulesClean ==
    [][pc = "validator" =>
         /\ criticCalled' = (RuleErrors(cc, _load_design_system) = <<>>)
         /\ criticCalls' = criticCalls + (IF criticCalled' THEN 1 ELSE 0)]_vars

\* a pass with rule violations has ended without any critic call in the run
C10_Witness ==
    /\ lastNode = "validator"
    /\ ~criticCalled
    /\ criticCalls = 0
    /\ cc.validation_errors # <<>>

\* the critic call raised, or what it returned is not a JSON object
CriticUnusable(out) ==
    \/ out.raises
    \/ LET result == JsonLoads(CriticText(out.content))
       IN  ~result.ok \/ ~result.isdict

\* the object a usable critic response parses to
Verdict(out) == JsonLoads(CriticText(out.content)).data

\* C11: when layer 1 finds nothing and the critic call raises or returns
\* what cannot be parsed, the pass ends with validation_errors empty,
\* validation_passed true and retry_count one higher, and no exception
\* leaves validator_node.
C11_CriticFailureTolerated ==
    [][pc = "validator" =>
         /\ pc' # "raised"
         /\ raised' = "none"
         /\ (layer1' = <<>> /\ critic_out' # None /\ CriticUnusable(critic_out')) =>
               /\ request'.current_component.validation_errors = <<>>
               /\ request'.current_component.validation_passed
               /\ request'.current_component.retry_count = cc.retry_count + 1]_vars

\* a pass over an artifact with code in it has ended although its critic
\* call raised
C11_Witness ==
    /\ lastNode = "validator"
    /\ layer1 = <<>>
    /\ critic_out = Raises
    /\ cc.typescript_code # <<>>
    /\ cc.validation_passed
    /\ cc.retry_count = 1

\* C12: when layer 1 finds nothing and the critic's response parses to a
\* verdict with passed false and a list of violations, the error list after
\* the pass is that list, in its order; a verdict with passed true leaves
\* the error list empty whatever list it carries.
C12_VerdictListTaken ==
    (critic_out # None /\ ~CriticUnusable(critic_out)
       /\ {"passed", "errors"} \subseteq DOMAIN Verdict(critic_out)) =>
        cc.validation_errors = IF Verdict(critic_out).passed
                               THEN <<>>
                               ELSE Verdict(critic_out).errors

\* the critic's two findings are the error list of the pass that just ended
C12_Witness ==
    /\ lastNode = "validator"
    /\ critic_out # None
    /\ ~CriticUnusable(critic_out)
    /\ ~Get(Verdict(critic_out), "passed", TRUE)
    /\ cc.validation_errors = <<CriticFindingA, CriticFindingB>>

\* C13: within one run the artifact's retry_count never decreases: the
\* generator gives the new artifact the retry_count of the one it replaces
\* (0 if there is none), a validation pass adds exactly 1, the corrector
\* and the finalizer leave it alone, so after the k-th pass it is k.
C13_AttemptCounter ==
    [][(pc \in {"generator", "validator", "corrector", "finalizer"}) =>
         LET before == IF cc = None THEN 0 ELSE cc.retry_count
             after == IF request'.current_component = None
                      THEN 0 ELSE request'.current_component.retry_count
         IN  /\ after >= before
             /\ pc = "generator" => after = before
             /\ pc = "validator" => after = before + 1
             /\ pc \in {"corrector", "finalizer"} => after = before
             /\ request'.current_component # None => after = valPasses'
             /\ request'.final_component # None =>
                   request'.final_component.retry_count = valPasses'
      ]_vars

\* the second validation pass of a run has ended with the counter at 2
C13_Witness ==
    /\ trace = <<"generator", "validator", "corrector", "generator", "validator">>
    /\ valPasses = 2
    /\ cc.retry_count = 2

\* C14: until the finalizer has run final_component is None and status is
\* "pending"; the finalizer runs at most once in a run, as its last node,
\* and sets final_component to the current artifact and status to "DONE";
\* so status is "DONE" exactly when final_component is set.
C14_FinalSetOnceByFinalizer ==
    request # None =>
        /\ request.status = "DONE" <=> request.final_component # None
        /\ ~Contains(trace, "finalizer") =>
              request.final_component = None /\ request.status = "pending"
        /\ Contains(trace, "finalizer") =>
              /\ Count(trace, {"finalizer"}) = 1
              /\ trace[Len(trace)] = "finalizer"
              /\ pc \in {"END", "idle"}
              /\ request.final_component = cc
              /\ request.status = "DONE"

\* the finalizer has just run, after two validation passes
C14_Witness ==
    /\ lastNode = "finalizer"
    /\ pc = "END"
    /\ Len(trace) = 6
    /\ request.status = "DONE"
    /\ request.final_component = cc

\* C15: the first generator invocation of a run passes no previous errors
\* and its prompt has no must-fix block; every later invocation comes from
\* the corrector and passes the error list the preceding validation pass
\* left, which is not empty, and the prompt lists these errors one per line,
\* in that order, unchanged.
C15_PreviousErrorsPassed ==
    [][(pc = "generator" /\ genCalls' = genCalls + 1) =>
         IF genCalls = 0
         THEN previous_errors' = None /\ messages' = <<>>
         ELSE LET left == passErrors[Len(passErrors)]
              IN  /\ lastNode = "corrector"
                  /\ Len(passErrors) = genCalls
                  /\ left # <<>>
                  /\ previous_errors' = Some(left)
                  /\ Len(messages') = Len(left) + 1
                  /\ \A i \in 1..Len(left) : messages'[i + 1] = <<"- ">> \o left[i]
      ]_vars

\* a retry was prompted with the two findings of the critic
C15_Witness ==
    /\ lastNode = "generator"
    /\ genCalls = 2
    /\ previous_errors = Some(<<CriticFindingA, CriticFindingB>>)
    /\ Len(messages) = 3

RetryTrace == <<"generator", "validator", "corrector", "generator", "validator">>

\* C16: when the first validation pass leaves violations and the pass over
\* the second artifact leaves none, the nodes run in the order generator,
\* validator, corrector, generator, validator, finalizer and nothing else
\* runs; the final artifact has validation_passed true, retry_count 2 and
\* no errors.
C16_SecondAttemptClean ==
    (Len(passErrors) = 2 /\ passErrors[1] # <<>> /\ passErrors[2] = <<>>) =>
        /\ raised = "none"
        /\ pc \in {"finalizer", "END", "idle"}
        /\ pc = "finalizer" => trace = RetryTrace
        /\ pc \in {"END", "idle"} =>
              /\ trace = Append(RetryTrace, "finalizer")
              /\ request.status = "DONE"
              /\ request.final_component.validation_passed
              /\ request.final_component.retry_count = 2
              /\ request.final_component.validation_errors = <<>>

\* a run whose first artifact broke two rules and whose second artifact is
\* clean has ended
C16_Witness ==
    /\ pc = "END"
    /\ trace = Append(RetryTrace, "finalizer")
    /\ Len(passErrors[1]) = 2
    /\ passErrors[2] = <<>>
    /\ request.final_component.typescript_code = TsGood
    /\ request.final_component.validation_passed

\* components/login-form/login-form
LoginFormBase ==
    <<"components/", "l","o","g","i","n","-","f","o","r","m", "/",
      "l","o","g","i","n","-","f","o","r","m">>

\* C17: for every artifact that reaches it, passed or not, the finalizer
\* writes exactly three files, the three payloads under one base path with
\* the extensions .component.ts, .component.html and .component.scss, and
\* the run ends with status DONE and no exception; an artifact that did not
\* pass differs for the caller only in validation_passed being false and in
\* the error list it keeps.
C17_AlwaysWritten ==
    [][pc = "finalizer" =>
         LET base_path == BasePath(KebabName(cc.component_name))
             ts == base_path \o <<".component.ts">>
             html == base_path \o <<".component.html">>
             scss == base_path \o <<".component.scss">>
         IN  /\ Cardinality({ts, html, scss}) = 3
             /\ DOMAIN files' = DOMAIN files \cup {ts, html, scss}
             /\ files'[ts] = cc.typescript_code
             /\ files'[html] = cc.html_template
             /\ files'[scss] = cc.scss_styles
             /\ \A path \in DOMAIN files \ {ts, html, scss} : files'[path] = files[path]
             /\ pc' = "END"
             /\ raised' = "none"
             /\ request'.status = "DONE"
             /\ request'.final_component = cc
             /\ ~cc.validation_passed =>
                   request'.final_component.validation_errors # <<>>
      ]_vars

\* an artifact that broke two rules on its last pass has been written to
\* its three files and the run has ended DONE
C17_Witness ==
    /\ lastNode = "finalizer"
    /\ request.status = "DONE"
    /\ ~request.final_component.validation_passed
    /\ Len(request.final_component.validation_errors) = 2
    /\ {LoginFormBase \o <<".component.ts">>, LoginFormBase \o <<".component.html">>,
        LoginFormBase \o <<".component.scss">>} \subseteq DOMAIN files
    /\ files[LoginFormBase \o <<".component.ts">>] = TsNoStandalone
    /\ files[LoginFormBase \o <<".component.scss">>] = ScssBadColor

\* C18: corrector_node returns the request as it got it: user_prompt,
\* conversation_history, the current artifact with its errors, passed flag
\* and retry_count, final_component and status are unchanged, and it calls
\* no model and writes no file.
C18_CorrectorRelays ==
    [][pc = "corrector" =>
         /\ request'.user_prompt = request.user_prompt
         /\ request'.conversation_history = request.conversation_history
         /\ request'.current_component = request.current_component
         /\ request'.final_component = request.final_component
         /\ request'.status = request.status
         /\ DOMAIN request' = DOMAIN request
         /\ genCalls' = genCalls
         /\ criticCalls' = criticCalls
         /\ files' = files
      ]_vars

\* the corrector has just run and the artifact still carries its errors
C18_Witness ==
    /\ lastNode = "corrector"
    /\ pc = "generator"
    /\ cc.validation_errors # <<>>
    /\ ~cc.validation_passed
    /\ cc.retry_count = 1

\* C19: layer 1 run again on the artifact a validation pass has just
\* returned, with the same palette, gives the error list it gave in that
\* pass, in the same order: what the pass wrote to validation_errors,
\* validation_passed and retry_count does not change the rule result, and a
\* second validator_node call on an artifact with rule errors leaves the
\* same error list.
C19_RuleLayerIdempotent ==
    lastNode = "validator" =>
        /\ RuleErrors(cc, _load_design_system) = layer1
        /\ layer1 # <<>> =>
              validator_node(request, Raises).current_component.validation_errors
                  = cc.validation_errors

\* a pass that found two rule violations has just ended
C19_Witness ==
    /\ lastNode = "validator"
    /\ ~criticCalled
    /\ Len(layer1) = 2
    /\ cc.validation_errors = layer1
    /\ cc.retry_count = 1

\* C20: a validation pass writes only validation_errors, validation_passed
\* and retry_count of the artifact: component_name, the three payloads,
\* the request's user_prompt, conversation_history, final_component and
\* status, and the design palette are after the pass what they were before.
C20_ValidatorFrame ==
    [][pc = "validator" =>
         /\ DOMAIN request'.current_component = DOMAIN cc
         /\ \A field \in DOMAIN cc \ {"validation_errors", "validation_passed",
                                       "retry_count"} :
               request'.current_component[field] = cc[field]
         /\ DOMAIN request' = DOMAIN request
         /\ \A field \in DOMAIN request \ {"current_component"} :
               request'[field] = request[field]
         /\ design_system' = design_system
      ]_vars

\* a pass in a follow-up turn has just ended with errors, and the artifact
\* and the request are otherwise what the generator and the caller made
C20_Witness ==
    /\ lastNode = "validator"
    /\ cc.validation_errors # <<>>
    /\ cc.component_name = NameLoginForm
    /\ cc.typescript_code = TsNoStandalone
    /\ cc.html_template = HtmlGood
    /\ cc.scss_styles = ScssBadColor
    /\ request.conversation_history # <<>>
    /\ request.final_component = None
    /\ request.status = "pending"
    /\ design_system = DesignSystem

\* the three files WriteComponentFiles writes for component hold its payloads
PersistedAsWritten(component) ==
    LET base_path == BasePath(KebabName(component.component_name))
    IN  /\ files[base_path \o <<".component.ts">>] = component.typescript_code
        /\ files[base_path \o <<".component.html">>] = component.html_template
        /\ files[base_path \o <<".component.scss">>] = component.scss_styles

\* C21: two runs that execute side by side, their node steps interleaved in
\* any order, share no mutable state; whatever names the generator returns,
\* the three files a finished run persisted hold what that run wrote, as if
\* it had run alone.
C21_RunsIndependent ==
    \A r \in DOMAIN runs :
        runs[r].pc = "END" => PersistedAsWritten(runs[r].request.final_component)

\* C22: after a validation pass, a behavior payload without the @Component
\* marker has the missing-declaration violation and not the standalone one
\* in the rule layer's result; a payload with the declaration but without
\* 'standalone: true' has the standalone violation and not the other; the
\* two are never reported together.
C22_DeclarationBeforeStandalone ==
    lastNode = "validator" =>
        LET has_decorator == Contains(cc.typescript_code, TComponent)
            has_standalone == Contains(cc.typescript_code, TStandalone)
            missing_decorator == Contains(layer1, ErrMissingDecorator)
            missing_standalone == Contains(layer1, ErrMissingStandalone)
        IN  /\ ~has_decorator => missing_decorator /\ ~missing_standalone
            /\ (has_decorator /\ ~has_standalone) =>
                   missing_standalone /\ ~missing_decorator
            /\ ~(missing_decorator /\ missing_standalone)

\* the payloads the rule layer concatenates
AllCode == cc.typescript_code \o cc.html_template \o cc.scss_styles

\* a color literal: '#' and three to eight hex digits, then a word boundary
IsColorLiteral(tok) == tok[1] = "hex" /\ Len(tok) \in 4..9

SameIgnoringCase(a, b) ==
    Len(a) = Len(b) /\ \A i \in 1..Len(a) : LowerChar(a[i]) = LowerChar(b[i])

\* digits equal, case-insensitively, the digits of a color value of the palette
InPalette(digits) ==
    \E k \in DOMAIN design_system.tokens :
        /\ design_system.tokens[k][1] = "hex"
        /\ SameIgnoringCase(Tail(design_system.tokens[k]), digits)

Authorized(digits) ==
    \/ InPalette(digits)
    \/ /\ Len(digits) = 3
       /\ InPalette(<<digits[1], digits[1], digits[2], digits[2], digits[3], digits[3]>>)

UnauthorizedColor(digits) == <<"Unauthorized color">> \o digits

\* C23: after a validation pass the rule layer's result holds, for each
\* color literal of the three payloads, one unauthorized-color violation per
\* occurrence if neither the literal nor (for three digits) its six-digit
\* expansion equals a palette color case-insensitively, and none otherwise;
\* every unauthorized-color violation names a literal of the payloads.  So
\* #FFF gives none with #ffffff in the palette and one #123abc gives one.
C23_PaletteCheck ==
    lastNode = "validator" =>
        /\ \A i \in 1..Len(AllCode) :
              IsColorLiteral(AllCode[i]) =>
                Count(layer1, {UnauthorizedColor(Tail(AllCode[i]))})
                  = IF Authorized(Tail(AllCode[i]))
                    THEN 0
                    ELSE Count(AllCode, {AllCode[i]})
        /\ \A j \in 1..Len(layer1) :
              layer1[j][1] = "Unauthorized color" =>
                \E i \in 1..Len(AllCode) :
                    IsColorLiteral(AllCode[i]) /\ Tail(AllCode[i]) = Tail(layer1[j])

\* a pass over styles with #FFF and one #123abc: one violation, naming #123abc
C23_Witness ==
    /\ lastNode = "validator"
    /\ Count(AllCode, {Hex(<<"F","F","F">>)}) = 1
    /\ Count(AllCode, {Hex(<<"1","2","3","a","b","c">>)}) = 1
    /\ Count(layer1, {UnauthorizedColor(<<"F","F","F">>)}) = 0
    /\ Count(layer1, {UnauthorizedColor(<<"1","2","3","a","b","c">>)}) = 1

\* the tags of the markup named tag, by kind
TagsOf(kinds, tag) ==
    Cardinality({i \in 1..Len(cc.html_template) :
                   /\ cc.html_template[i][1] \in kinds
                   /\ Tail(cc.html_template[i]) = tag})

\* the tag-mismatch violations of the rule layer's result that name tag
MismatchesNaming(tag) ==
    Cardinality({j \in 1..Len(layer1) :
                   /\ layer1[j][1] = "HTML tag mismatch for"
                   /\ SubSeq(layer1[j], 2, Len(layer1[j]) - 2) = tag})

\* C24: after a validation pass, for each tag name of the fixed set the rule
\* layer's result holds exactly one violation naming it if the number of its
\* open tags (self-closing tags not counted) differs from the number of its
\* closes plus its self-closing tags, and none otherwise.
C24_TagBalance ==
    lastNode = "validator" =>
        \A t \in 1..Len(CheckedTags) :
            LET tag == CheckedTags[t]
                opens == TagsOf({"open", "openattr"}, tag)
                closes == TagsOf({"close"}, tag)
                self_closing == TagsOf({"selfclose", "selfcloseattr"}, tag)
            IN  MismatchesNaming(tag) = IF opens # closes + self_closing THEN 1 ELSE 0

\* the objects written in a model response: the member lists standing
\* between an opening and a closing brace
ObjectsIn(text) ==
    {text[i + 1] : i \in {j \in 1..(Len(text) - 2) :
                            /\ text[j] = "{"
                            /\ text[j + 1] \in MemberNames
                            /\ text[j + 2] = "}"}}

\* the response holds no object, or one whose behavior or markup text is
\* absent or empty
Unusable(text) ==
    \/ ObjectsIn(text) = {}
    \/ \E k \in ObjectsIn(text) :
          \/ "typescript_code" \notin DOMAIN JsonMembers(k)
          \/ "html_template" \notin DOMAIN JsonMembers(k)
          \/ JsonMembers(k).typescript_code = <<>>
          \/ JsonMembers(k).html_template = <<>>

\* C25: when the generator's model call returns text that holds no parsable
\* object, or an object whose behavior or markup text is absent or empty, the
\* generator step leaves an artifact with three empty payloads, exactly one
\* error (the synthetic one), validation_passed = false and the attempt
\* counter of the artifact it started from (0 if there was none), and the run
\* goes on to the validator without raising.
C25_FailureArtifact ==
    [][(pc = "generator" /\ lastNode' = "generator" /\ Unusable(response')) =>
         LET made == request'.current_component
         IN  /\ made.typescript_code = <<>>
             /\ made.html_template = <<>>
             /\ made.scss_styles = <<>>
             /\ Len(made.validation_errors) = 1
             /\ made.validation_errors[1][1] = "JSON Error"
             /\ made.validation_passed = FALSE
             /\ made.retry_count = IF request.current_component = None THEN 0
                                   ELSE request.current_component.retry_count
             /\ pc' = "validator"
             /\ raised' = "none"
    ]_vars

\* a second attempt whose object has no markup text: the failure artifact,
\* with the counter 1 of the attempt before
C25_Witness ==
    /\ lastNode = "generator"
    /\ response = <<"{", "G_no_html", "}">>
    /\ IsEmptyArtifact(cc)
    /\ Len(cc.validation_errors) = 1
    /\ cc.retry_count = 1
    /\ pc = "validator"

\* text from its first opening brace to its last closing brace, the whole
\* text if a brace is missing
Sliced(text) ==
    LET opening == {i \in 1..Len(text) : text[i] = "{"}
        closing == {i \in 1..Len(text) : text[i] = "}"}
    IN  IF opening # {} /\ closing # {}
        THEN SubSeq(text, CHOOSE i \in opening : \A j \in opening : i <= j,
                          CHOOSE i \in closing : \A j \in closing : i >= j)
        ELSE text

\* text without its fence markers and the language tags that follow them
Unfenced(text) ==
    LET kept == {i \in 1..Len(text) :
                   /\ text[i] # "fence"
                   /\ ~(text[i] = "json" /\ i > 1 /\ text[i - 1] = "fence")}
    IN  [n \in 1..Cardinality(kept) |->
           text[CHOOSE i \in kept : Cardinality({j \in kept : j <= i}) = n]]

\* the generator's artifact reports that the parser raised
ParseRaised ==
    /\ cc.validation_errors # <<>>
    /\ cc.validation_errors[1] = <<"JSON Error", "JSONDecodeError", ContractReminder>>

\* got is want with its doubly escaped quotes turned into quotes
Recovered(got, want) ==
    /\ Len(got) = Len(want)
    /\ \A i \in 1..Len(want) :
          got[i] = want[i] \/ (want[i] = TEscQuote /\ got[i] = TQuote)

\* C26: once generator_node has parsed the model's text, the parser has
\* raised exactly when the strict parse of the text sliced from its first
\* opening brace to its last closing brace fails and the parse of that slice
\* with the fence markers stripped fails too; and when the text is one
\* object with only prose and fences before and after it, the artifact
\* carries that object's name and payloads.
C26_RobustParse ==
    lastNode = "generator" =>
        /\ ParseRaised <=>
              (/\ ~JsonLoads(Sliced(response)).ok
               /\ ~JsonLoads(Unfenced(Sliced(response))).ok)
        /\ \A i \in 1..(Len(response) - 2) :
              (/\ response[i] = "{"
               /\ response[i + 1] \in MemberNames
               /\ response[i + 2] = "}"
               /\ \A j \in (1..Len(response)) \ {i, i + 1, i + 2} :
                     response[j] \in WrapPieces)
              => LET object == JsonMembers(response[i + 1])
                 IN  /\ cc.component_name = object.component_name
                     /\ Recovered(cc.typescript_code, object.typescript_code)
                     /\ Recovered(cc.html_template, object.html_template)
                     /\ cc.validation_errors = <<>>

\* a leading sentence and a fenced block holding the object: recovered
C26_Witness ==
    /\ lastNode = "generator"
    /\ response = <<"prose", "fence", "json", "{", "G_clean", "}", "fence">>
    /\ cc.typescript_code = TsGood
    /\ cc.component_name = NameLoginForm
    /\ cc.validation_errors = <<>>

\* name without a trailing 'Component'
WithoutSuffix(name) ==
    IF Len(name) >= Len(ComponentWord)
       /\ SubSeq(name, Len(name) - Len(ComponentWord) + 1, Len(name)) = ComponentWord
    THEN SubSeq(name, 1, Len(name) - Len(ComponentWord))
    ELSE name

\* s in lower case with a hyphen before each upper-case letter that is not
\* its first character
Hyphenated(s) ==
    LET upper == {i \in 2..Len(s) : IsUpper(s[i])}
        before(i) == Cardinality({j \in upper : j <= i})
    IN  [n \in 1..(Len(s) + Cardinality(upper)) |->
           LET i == CHOOSE k \in 1..Len(s) : k + before(k) = n \/ (k \in upper /\ k + before(k) - 1 = n)
           IN  IF i \in upper /\ i + before(i) - 1 = n THEN "-" ELSE LowerChar(s[i])]

\* lower-case letters, digits and hyphens only, and at least one of them
FilesystemSafe(id) ==
    /\ id # <<>>
    /\ \A i \in 1..Len(id) : id[i] \in LowerSet \cup DigitSet \cup {"-"}

\* C27: once the finalizer has run, the three files are at
\* components/<id>/<id>.component.ts, .html and .scss, where <id> is the
\* artifact's name without its 'Component' suffix, with a hyphen before each
\* internal upper-case letter, in lower case; and <id> is filesystem-safe
\* whatever the name.
C27_SafeIdentifier ==
    lastNode = "finalizer" =>
        LET id == Hyphenated(WithoutSuffix(request.final_component.component_name))
        IN  /\ FilesystemSafe(id)
            /\ DOMAIN files = {BasePath(id) \o <<".component.ts">>,
                               BasePath(id) \o <<".component.html">>,
                               BasePath(id) \o <<".component.scss">>}

\* what the critic reported in the pass that ends in the next state
CriticFindings ==
    IF critic_out' # None /\ ~CriticUnusable(critic_out')
    THEN Get(Verdict(critic_out'), "errors", <<>>)
    ELSE <<>>

\* C28: the error list a validation pass leaves holds only what the rule
\* layer or the critic found in that pass, whatever the artifact carried
\* before (the generator's synthetic error included); the route taken after
\* the pass depends on that list and the counter only, and the must-fix
\* block of the next prompt is built from the list of the latest pass.
C28_NoAccumulation ==
    [][/\ (pc = "validator" /\ lastNode' = "validator") =>
            LET left == request'.current_component.validation_errors
            IN  /\ \A i \in 1..Len(left) :
                      Contains(layer1', left[i]) \/ Contains(CriticFindings, left[i])
                /\ Len(left) <= Len(layer1') + Len(CriticFindings)
                /\ \A i \in 1..Len(left) : left[i][1] # "JSON Error"
                /\ pc' = IF left = <<>>
                            \/ request'.current_component.retry_count >= MAX_RETRIES
                         THEN "finalizer" ELSE "corrector"
       /\ (pc = "generator" /\ passErrors # <<>>) =>
            LET latest == passErrors[Len(passErrors)]
            IN  /\ previous_errors' = Some(latest)
                /\ Len(messages') = Len(latest) + 1
    ]_vars

\* the failure artifact came with its synthetic error and the pass left an
\* empty list
C28_Witness ==
    /\ lastNode = "validator"
    /\ valPasses = 1
    /\ IsEmptyArtifact(cc)
    /\ passErrors = << <<>> >>
    /\ cc.validation_errors = <<>>
    /\ pc = "finalizer"

\* C29: a validation pass sets validation_passed exactly when the list it
\* leaves is empty, whatever flag the critic returned: when the rule layer
\* finds nothing and the critic's verdict has passed = false with an empty
\* or missing list, the pass ends with validation_passed = true and no
\* errors, and the finalizer runs next.
C29_FlagFromListOnly ==
    [][(pc = "validator" /\ lastNode' = "validator") =>
         LET after == request'.current_component
         IN  /\ after.validation_passed <=> (after.validation_errors = <<>>)
             /\ (/\ layer1' = <<>>
                 /\ critic_out' # None
                 /\ ~CriticUnusable(critic_out')
                 /\ "passed" \in DOMAIN Verdict(critic_out')
                 /\ ~Verdict(critic_out').passed
                 /\ Get(Verdict(critic_out'), "errors", <<>>) = <<>>)
                => /\ after.validation_passed
                   /\ after.validation_errors = <<>>
                   /\ pc' = "finalizer"
    ]_vars

\* the critic answered passed = false without a list; the artifact is clean
\* and goes to the finalizer
C29_Witness ==
    /\ lastNode = "validator"
    /\ critic_out = Returns(<<"{", "V_fail_no_errors", "}">>)
    /\ cc.typescript_code # <<>>
    /\ cc.validation_passed
    /\ cc.validation_errors = <<>>
    /\ pc = "finalizer"

\* C30: in a run that has ended DONE, the final artifact has a retry_count
\* from 1 to MAX_RETRIES; if its validation_passed is false, its error list
\* is non-empty and its retry_count is MAX_RETRIES, so no failing artifact
\* is finalized while retries remain.
C30_ExhaustedOnlyAtBudget ==
    (request # None /\ request.status = "DONE") =>
        LET final == request.final_component
        IN  /\ final # None
            /\ final.retry_count >= 1
            /\ final.retry_count <= MAX_RETRIES
            /\ ~final.validation_passed =>
                  /\ final.validation_errors # <<>>
                  /\ final.retry_count = MAX_RETRIES

\* a run ended DONE with an artifact that failed both passes
C30_Witness ==
    /\ pc = "END"
    /\ request.status = "DONE"
    /\ ~request.final_component.validation_passed
    /\ request.final_component.validation_errors # <<>>
    /\ request.final_component.retry_count = MAX_RETRIES
    /\ valPasses = MAX_RETRIES

\* C31: a run executes at most 3 * MAX_RETRIES node steps (generator,
\* validator, corrector and finalizer executions together); that is below
\* the step ceiling the callers pass to the graph, which therefore never
\* ends a run.
C31_StepsBelowCeiling ==
    /\ steps <= 3 * MAX_RETRIES
    /\ 3 * MAX_RETRIES < RECURSION_LIMIT
    /\ ~LimitReached
    /\ raised # "GraphRecursionError"

\* a run that used both attempts has ended after six node steps
C31_Witness ==
    /\ pc = "END"
    /\ steps = 3 * MAX_RETRIES
    /\ genCalls = MAX_RETRIES
    /\ valPasses = MAX_RETRIES
    /\ raised = "none"

\* the generator invocations of this run: those that completed and the one
\* whose model call raised
GeneratorInvocations ==
    Count(trace, {"generator"}) + (IF genOutcome = "raised" THEN 1 ELSE 0)

\* C32: a generator step makes one model call and no critic call, a
\* validation pass makes no generator call and at most one critic call, and
\* the corrector, the finalizer and the callers' steps make neither; so a
\* run with n generator invocations has made n generator calls and at most
\* n critic calls.
C32_ModelCalls ==
    [][/\ pc = "generator" =>
            genCalls' = genCalls + 1 /\ criticCalls' = criticCalls
       /\ pc = "validator" =>
            /\ genCalls' = genCalls
            /\ criticCalls' \in {criticCalls, criticCalls + 1}
       /\ pc \in {"corrector", "finalizer", "END", "raised"} =>
            genCalls' = genCalls /\ criticCalls' = criticCalls
       /\ pc' # "generator" =>
            /\ genCalls' = GeneratorInvocations'
            /\ criticCalls' <= Count(trace', {"validator"})
            /\ criticCalls' <= genCalls'
    ]_vars

\* two generator invocations, two generator calls, and one critic call: the
\* first artifact broke a rule, the second went to the critic
C32_Witness ==
    /\ pc = "END"
    /\ Count(trace, {"generator"}) = 2
    /\ genCalls = 2
    /\ valPasses = 2
    /\ criticCalls = 1

\* the user turns of a conversation
UserTurns(hist) == Cardinality({i \in 1..Len(hist) : hist[i].role = "user"})

\* the generate requests a session has had answered
AnsweredFor(sid) ==
    Cardinality({i \in 1..Len(responses) : responses[i].session_id = sid})

\* a caller starts a run of the graph
RunStarts == pc = "idle" /\ pc' = EntryPoint

\* the final artifact the caller holds from an earlier turn when it starts
\* a run: the CLI's last result, the session's last_component
HeldArtifact ==
    IF session' = None
    THEN IF cli_request # None THEN cli_request.final_component ELSE None
    ELSE IF session'.value \in DOMAIN _STORE
         THEN _STORE[session'.value].last_component
         ELSE None

\* the turns the caller has started before this one: of the CLI loop, or
\* of the session the request is for
EarlierTurns ==
    IF session' = None THEN turn ELSE AnsweredFor(session'.value)

\* C33: whichever caller starts a run, the request it hands to the graph
\* carries no artifact and is pending, and the run's counters start at
\* zero; an artifact held from an earlier turn is the last, assistant, turn
\* of the request's conversation_history and is nowhere else in it; the user
\* turns of that history are those of the earlier turns, so the current
\* prompt is not one of them.
C33_FreshRequest ==
    [][RunStarts =>
         /\ request'.current_component = None
         /\ request'.final_component = None
         /\ request'.status = "pending"
         /\ genCalls' = 0 /\ valPasses' = 0 /\ steps' = 0
         /\ LET conversation == request'.conversation_history
                carried == {i \in 1..Len(conversation) :
                              /\ HeldArtifact # None
                              /\ conversation[i] = PreviousTurn(HeldArtifact)}
            IN  /\ HeldArtifact # None =>
                     /\ conversation # <<>>
                     /\ Len(conversation) \in carried
                     /\ conversation[Len(conversation)].role = "assistant"
                /\ HeldArtifact = None =>
                     \A i \in 1..Len(conversation) :
                        conversation[i].content.kind # "Previously generated component"
                /\ UserTurns(conversation) = EarlierTurns
    ]_vars

\* the second request of a session whose first request was answered with
\* an artifact: that artifact is the last turn of the history the run got,
\* and the run has again used both attempts
C33_Witness ==
    /\ session # None
    /\ pc = "END"
    /\ AnsweredFor(session.value) = 1
    /\ _STORE[session.value].last_component # None
    /\ request.conversation_history # <<>>
    /\ request.conversation_history[Len(request.conversation_history)]
          = PreviousTurn(_STORE[session.value].last_component)
    /\ UserTurns(request.conversation_history) = 1
    /\ valPasses = MAX_RETRIES

\* the generate requests answered for a session with a status code
AnsweredWith(sid, status_code) ==
    Cardinality({i \in 1..Len(responses) :
                   responses[i] = [session_id |-> sid, status_code |-> status_code]})

\* the generate requests a session has had: those answered and the one
\* being served
RequestsFor(sid) ==
    AnsweredFor(sid) + (IF session = Some(sid) THEN 1 ELSE 0)

\* the turns of a role in a list of turns or of chat entries
TurnsOf(entries, role) ==
    Cardinality({i \in 1..Len(entries) : entries[i].role = role})

\* the turn counts of every session match the requests it has had
TurnsMatchRequests ==
    \A sid \in DOMAIN _STORE :
       LET sess == _STORE[sid]
           failed == AnsweredWith(sid, 500)
           served == IF session = Some(sid) THEN 1 ELSE 0
       IN  /\ AnsweredFor(sid) = AnsweredWith(sid, 200) + failed
           /\ TurnsOf(sess.conversation_history, "user") = RequestsFor(sid)
           /\ TurnsOf(sess.chat_log, "user") = RequestsFor(sid)
           /\ TurnsOf(sess.conversation_history, "assistant") = AnsweredWith(sid, 200)
           /\ TurnsOf(sess.chat_log, "assistant") = AnsweredWith(sid, 200)
           /\ TurnsOf(sess.conversation_history, "user")
                = TurnsOf(sess.conversation_history, "assistant") + failed + served
           /\ Len(sess.conversation_history) = Len(sess.chat_log)

\* C34: generate() appends the user turn to the session's
\* conversation_history and chat_log before the graph runs, and the turn is
\* still the last one while it runs; when the graph raises, the request is
\* answered with 500 and the session is left as it was, user turn included,
\* with no assistant turn and the same last_component; so in every session
\* the user turns number its generate requests and exceed its assistant
\* turns by its failed requests.
C34_UserTurnKept ==
    [][/\ (RunStarts /\ session' # None) =>
            LET sess == _STORE'[session'.value]
                n == Len(sess.conversation_history)
            IN  /\ n > 0
                /\ sess.conversation_history[n] = UserTurn(request'.user_prompt)
                /\ sess.chat_log[n].role = "user"
                /\ sess.chat_log[n].content = UserTurn(request'.user_prompt).content
       /\ (session # None /\ session' # None) => _STORE' = _STORE
       /\ (session # None /\ pc = "raised") =>
            /\ responses' = Append(responses, [session_id |-> session.value,
                                                status_code |-> 500])
            /\ _STORE' = _STORE
       /\ TurnsMatchRequests'
    ]_vars

\* a session whose first request was answered with an artifact and whose
\* second request failed: two user turns, one assistant turn, and the first
\* request's artifact still held
C34_Witness ==
    /\ session = None
    /\ \E sid \in DOMAIN _STORE :
          /\ responses = << [session_id |-> sid, status_code |-> 200],
                            [session_id |-> sid, status_code |-> 500] >>
          /\ TurnsOf(_STORE[sid].conversation_history, "user") = 2
          /\ TurnsOf(_STORE[sid].conversation_history, "assistant") = 1
          /\ _STORE[sid].last_component # None
          /\ _STORE[sid].conversation_history[3].role = "user"

====
